---- MODULE Spec2Model ----
(***************************************************************************)
(* MI transport and session engine of mcp-gdb-server (src/gdb/client.rs,   *)
(* src/gdb/parser.rs): one caller thread driving GdbClient through its     *)
(* &mut API, one stdout pump thread per spawned debugger, one stderr       *)
(* drain, the pending-reply table, the session state and the event queue.  *)
(***************************************************************************)
EXTENDS Integers, Sequences, FiniteSets, TLC

\* ---- bounds -------------------------------------------------------------
MaxToken  == 4   \* highest token the counter may hand out
MaxLines  == 2   \* stdout lines read on which handle_async_record acts
MaxInbox  == 1   \* records queued on one reply channel
MaxLate   == 1   \* replies the debugger sends to calls that timed out
MaxStderr == 1   \* stderr lines drained in one behaviour
MaxBad    == 1     \* lines on which the parser fails, over all pumps
MaxSpawns == 2   \* debugger processes spawned in one behaviour

\* ---- constants of the program ------------------------------------------
FirstToken == 1          \* AtomicU64::new(1)
HandshakeLen == 3        \* commands sent by initialize

NoTok == -1              \* Option::None for a token / no live receiver

Gens == 1..MaxSpawns

\* The threads that lock the two mutexes: the caller of the API and the
\* stdout pump of each debugger process.
NoThread == <<"none", 0>>
CallerThread == <<"caller", 0>>
PumpThread(g) == <<"pump", g>>

VARIABLES
    process,        \* self.process.is_some()
    stdin,          \* self.stdin.is_some()
    gen,            \* number of debugger processes spawned so far
    gdb,            \* per spawned debugger: "none" | "alive" | "zombie" | "reaped"
    wire,           \* history: the write calls on the debuggers' stdin, oldest first
    token_counter,  \* self.token_counter
    event_rx,       \* self.event_rx.is_some()
    config,         \* self.config (the architecture tag; "" is None)
    text,           \* parser: the input handed to the parser, a sequence of characters
    parsed,         \* parser: [done, out], what the parser returned for text
    pending,        \* keys of self.pending_responses
    pending_lock,   \* the thread that holds the mutex of pending_responses
    state_lock,     \* the thread that holds the mutex of the session state
    rxTok,          \* token whose reply receiver (rx) is still alive, or NoTok
    inbox,          \* records queued on that live reply channel
    state,          \* GdbSessionState (the fields the engine writes here)
    events,         \* contents of the event channel, oldest first
    pump,           \* per debugger: stdout reader thread [pc, rec, todo, wrote]
    op, pc, tok,    \* caller thread: API method, position, token of its call
    initStep,       \* caller thread: index of the handshake command in start
    arg,            \* caller thread: the argument the method stores on success
    resp,           \* caller thread: record send_command received last in this call
    ret,            \* result of the API call that returned last, until the next call
    readLog,        \* history: records read from stdout that handle_async_record acts on
    nerr,           \* stderr lines drained so far
    lastAsync,      \* history: class of the last exec-async record whose state write ran
    stoppedSince,   \* history: a *stopped state write ran after the last reply delivery
    timedOut,       \* history: tokens of send_command calls that returned by timeout
    nlate,          \* history: replies bearing a timed-out token the pumps dispatched
    nbad            \* history: lines read on which parse_line returned an error

vars == <<process, stdin, gen, gdb, wire, token_counter, event_rx, config,
          text, parsed, pending, pending_lock, state_lock, rxTok,
          inbox, state, events, pump, op, pc, tok, initStep, arg, resp,
          ret, readLog, nerr, lastAsync, stoppedSince, timedOut, nlate,
          nbad>>

parserVars == <<text, parsed>>
lockVars == <<pending_lock, state_lock>>
engineVars == <<process, stdin, gen, token_counter, wire, event_rx, config,
                parserVars, lockVars>>
callerVars == <<op, pc, tok, initStep, arg, resp, ret>>
ghostVars  == <<lastAsync, stoppedSince, timedOut, nlate, nbad>>

\* ---- MI lines and records ----------------------------------------------
ResultClasses == {"done", "running", "connected", "error", "exit"}
AsyncClasses  == {"stopped", "running"}
NotificationClasses ==
    {"breakpoint-created", "breakpoint-modified", "breakpoint-deleted",
     "thread-group-added", "thread-group-started", "thread-group-exited",
     "thread-created", "thread-selected", "thread-exited",
     "library-loaded", "library-unloaded", "cmd-param-changed",
     "param-changed", "memory-changed"}

\* A line is its optional decimal token, its prefix character, its class word
\* and the one result value the pump looks at (thread-id, id or number; ""
\* when the line has none).  pfx = "" is a blank line or the (gdb) prompt.
Line(t, p, c, a) == [tok |-> t, pfx |-> p, cls |-> c, arg |-> a]

Rec(k, t, c, a) == [kind |-> k, token |-> t, class |-> c, arg |-> a]
NoRec == Rec("None", NoTok, "", "")
ErrRec == Rec("Err", NoTok, "", "")

parse_line(l) ==
    IF l.pfx = "" THEN NoRec
    ELSE IF l.pfx = "^" THEN
        IF l.cls \in ResultClasses THEN Rec("Result", l.tok, l.cls, l.arg)
        ELSE ErrRec
    ELSE IF l.pfx = "*" THEN
        IF l.cls \in AsyncClasses THEN Rec("Async", l.tok, l.cls, l.arg)
        ELSE ErrRec
    ELSE IF l.pfx = "=" /\ l.tok = NoTok THEN
        IF l.cls \in NotificationClasses
        THEN Rec("Notification", NoTok, l.cls, l.arg)
        ELSE ErrRec
    ELSE IF l.pfx = "~" /\ l.tok = NoTok THEN Rec("Console", NoTok, "", l.arg)
    ELSE IF l.pfx = "@" /\ l.tok = NoTok THEN Rec("Target", NoTok, "", l.arg)
    ELSE IF l.pfx = "&" /\ l.tok = NoTok THEN Rec("Log", NoTok, "", l.arg)
    ELSE Rec("Console", NoTok, "", l.arg)

\* ---- the stdout pump: read_output_loop and handle_async_record ---------
\* A lookup that takes the newest pending entry whatever the token is.
PendingGetNewest(map, t) ==
    IF map = {} THEN NoTok ELSE CHOOSE x \in map : \A y \in map : y <= x

\* Channel a pending entry for token t sends on (channels are named by the
\* token they were created for), NoTok when the table has no entry for t.
PendingGet(map, t) == IF t \in map THEN t ELSE NoTok

\* A test that looks at the token only, whatever the record is.
IsReplyAnyKind(rec) == rec.token # NoTok

\* if let MiOutputRecord::Result { token, .. } = &record { if let Some(tok) ..
IsReply(rec) == rec.kind = "Result" /\ rec.token # NoTok

\* Sender::send fails exactly when the receiver was dropped.
SendOk(ch) == ch # NoTok /\ ch = rxTok

\* tx.send(record).unwrap(): a failed send panics the pump thread.
AfterSendUnwrap(ok) == IF ok THEN "read" ELSE "panicked"

\* let _ = tx.send(record); continue;
AfterSend(ok) == "read"

\* A queue that takes new events at its head.
PublishEventFront(q, e) == <<e>> \o q

\* Sender::send on the event channel: the queue grows at its tail.
PublishEvent(q, e) == Append(q, e)

Event(ty, ch, a) == [type |-> ty, channel |-> ch, arg |-> a]

\* The event handle_async_record sends for a record; type "None" when it
\* sends nothing.  A notification's arg stands for the result values its
\* handler needs; the handler sends nothing when they are missing.
EventOf(rec) ==
    IF rec.kind = "Async" /\ rec.class = "stopped"
        THEN Event("Stopped", "", rec.arg)
    ELSE IF rec.kind = "Async" /\ rec.class = "running"
        THEN Event("Running", "", rec.arg)
    ELSE IF rec.kind = "Notification" /\ rec.class = "thread-selected"
            /\ rec.arg # ""
        THEN Event("ThreadSelected", "", rec.arg)
    ELSE IF rec.kind = "Notification" /\ rec.class = "breakpoint-created"
            /\ rec.arg # ""
        THEN Event("BreakpointCreated", "", rec.arg)
    ELSE IF rec.kind = "Notification" /\ rec.class = "breakpoint-modified"
            /\ rec.arg # ""
        THEN Event("BreakpointModified", "", rec.arg)
    ELSE IF rec.kind = "Notification" /\ rec.class = "breakpoint-deleted"
            /\ rec.arg # ""
        THEN Event("BreakpointDeleted", "", rec.arg)
    ELSE IF rec.kind = "Notification" /\ rec.class = "thread-created"
            /\ rec.arg # ""
        THEN Event("ThreadCreated", "", rec.arg)
    ELSE IF rec.kind = "Notification" /\ rec.class = "thread-exited"
            /\ rec.arg # ""
        THEN Event("ThreadExited", "", rec.arg)
    ELSE IF rec.kind = "Console" THEN Event("Output", "Console", rec.arg)
    ELSE IF rec.kind = "Target" THEN Event("Output", "Target", rec.arg)
    ELSE IF rec.kind = "Log" THEN Event("Output", "Log", rec.arg)
    ELSE Event("None", "", "")

\* An exec-async handler that sends the event before it writes the state.
HandleStepsSendFirst(rec) ==
    IF rec.kind = "Async" THEN <<"publish", "write">>
    ELSE IF EventOf(rec).type = "ThreadSelected" THEN <<"select">>
    ELSE IF EventOf(rec).type # "None" THEN <<"publish">>
    ELSE <<>>

\* The steps of handle_async_record that touch shared data, in program order:
\* "write" is the locked session-state write of an exec-async record,
\* "select" the locked write-and-send of thread-selected, "publish" a send
\* on the event channel.
HandleSteps(rec) ==
    IF rec.kind = "Async" THEN <<"write", "publish">>
    ELSE IF EventOf(rec).type = "ThreadSelected" THEN <<"select">>
    ELSE IF EventOf(rec).type # "None" THEN <<"publish">>
    ELSE <<>>

\* A reader loop that ends at the first line the parser fails on.
AfterParseErrorBreak == "exited"

\* Err(e) => { warn!(..); }: the for loop reads the next line.
AfterParseError == "read"

\* A pump thread: where it is, the record it holds, the steps of
\* handle_async_record still to run, and whether the state write for the
\* record has run.
Pump(p, r, t, w) == [pc |-> p, rec |-> r, todo |-> t, wrote |-> w]
PumpIdle == Pump("read", NoRec, <<>>, FALSE)

\* A delivery that lacks the continue and also fans the reply out as an event.
DeliverAndFanOut(g, rec) ==
    LET ch == PendingGet(pending, rec.token) IN
    /\ inbox' = IF SendOk(ch) THEN Append(inbox, rec) ELSE inbox
    /\ stoppedSince' = IF SendOk(ch) THEN FALSE ELSE stoppedSince
    /\ pump' = [pump EXCEPT ![g] =
                  Pump(AfterSend(SendOk(ch)), NoRec, <<>>, FALSE)]
    /\ events' = PublishEvent(events, Event("Output", "Console", rec.class))
    /\ UNCHANGED <<state, lastAsync>>

\* let pending_map = pending.lock().unwrap();
\* if let Some(tx) = pending_map.get(tok) { let _ = tx.send(record); continue; }
Deliver(g, rec) ==
    LET ch == PendingGet(pending, rec.token) IN
    /\ inbox' = IF SendOk(ch) THEN Append(inbox, rec) ELSE inbox
    /\ stoppedSince' = IF SendOk(ch) THEN FALSE ELSE stoppedSince
    /\ pump' = [pump EXCEPT ![g] =
                  Pump(AfterSend(SendOk(ch)), NoRec, <<>>, FALSE)]
    /\ UNCHANGED <<state, events, lastAsync>>

\* A *stopped handler that keeps the current thread when the record names
\* none.
StoppedThreadIfPresent(cur, id) == IF id = "" THEN cur ELSE id

\* state.current_thread = thread_id.clone(): the thread-id of the record, or
\* None (here "") when the record has no thread-id string.
StoppedThread(cur, id) == id

\* The next step of handle_async_record for the record rec.
HandleStep(g, rec, steps, w) ==
    LET s == Head(steps) IN
    /\ IF s = "write"
       THEN /\ state' = IF rec.class = "stopped"
                        THEN [state EXCEPT !.running = FALSE,
                                           !.current_thread =
                                  StoppedThread(state.current_thread, rec.arg)]
                        ELSE [state EXCEPT !.running = TRUE]
            /\ lastAsync' = rec.class
            /\ stoppedSince' = (rec.class = "stopped" \/ stoppedSince)
       ELSE /\ state' = IF s = "select"
                        THEN [state EXCEPT !.current_thread = rec.arg]
                        ELSE state
            /\ UNCHANGED <<lastAsync, stoppedSince>>
    /\ events' = IF s \in {"publish", "select"}
                 THEN PublishEvent(events, EventOf(rec))
                 ELSE events
    /\ pump' = [pump EXCEPT ![g] =
                  IF Len(steps) = 1 THEN PumpIdle
                  ELSE Pump("handle", rec, Tail(steps), w \/ s = "write")]
    /\ UNCHANGED inbox

\* for line in reader.lines() { match parser.parse_line(&line) { ... } }
\* One line is read, parsed and acted on up to the end of the first critical
\* section or channel send.  A line that parses to no record, and a record
\* on which handle_async_record does nothing, change nothing; a line on
\* which the parser fails is logged with warn! and the loop goes on.
PumpReadLine(g, l) ==
    /\ pump[g].pc = "read"
    /\ gdb[g] # "none"
    /\ LET rec == parse_line(l) IN
       IF rec.kind = "None"
       THEN UNCHANGED <<pump, inbox, state, events, readLog, ghostVars>>
       ELSE IF rec.kind = "Err"
       THEN /\ nbad < MaxBad
            /\ nbad' = nbad + 1
            /\ pump' = [pump EXCEPT ![g] =
                          Pump(AfterParseError, NoRec, <<>>, FALSE)]
            /\ UNCHANGED <<inbox, state, events, readLog, lastAsync,
                           stoppedSince, timedOut, nlate>>
       ELSE IF IsReply(rec) /\ PendingGet(pending, rec.token) # NoTok
       THEN /\ Deliver(g, rec)
            /\ nlate' = IF rec.token \in timedOut THEN nlate + 1 ELSE nlate
            /\ UNCHANGED <<readLog, timedOut, nbad>>
       ELSE IF HandleSteps(rec) = <<>>
       THEN /\ nlate' = IF rec.token \in timedOut THEN nlate + 1 ELSE nlate
            /\ UNCHANGED <<pump, inbox, state, events, readLog, lastAsync,
                           stoppedSince, timedOut, nbad>>
       ELSE /\ Len(readLog) < MaxLines
            /\ readLog' = Append(readLog, rec)
            /\ HandleStep(g, rec, HandleSteps(rec), FALSE)
            /\ UNCHANGED <<timedOut, nlate, nbad>>
    /\ UNCHANGED <<engineVars, gdb, pending, rxTok, callerVars, nerr>>

\* The rest of handle_async_record for the record the pump holds.
PumpHandle(g) ==
    /\ pump[g].pc = "handle"
    /\ HandleStep(g, pump[g].rec, pump[g].todo, pump[g].wrote)
    /\ UNCHANGED <<engineVars, gdb, pending, rxTok, callerVars, readLog, nerr,
                   timedOut, nlate, nbad>>

\* A reader that keeps polling a pipe that has reached end of file.
AfterEofRead == "read"

\* reader.lines() yields None: the for loop ends and the thread function
\* returns after info!("GDB output reader stopped").
AfterEof == "exited"

\* reader.lines() ends: the debugger is gone and its pipe is drained.
PumpEof(g) ==
    /\ pump[g].pc = "read"
    /\ gdb[g] \in {"zombie", "reaped"}
    /\ pump' = [pump EXCEPT ![g] = Pump(AfterEof, NoRec, <<>>, FALSE)]
    /\ UNCHANGED <<engineVars, gdb, pending, rxTok, inbox, state, events,
                   callerVars, readLog, nerr, ghostVars>>

\* Err(e) => { error!("Error reading GDB output: {}", e); break; }
\* reader.lines() yields an error (the bytes of a line are not UTF-8, or the
\* read call fails): the loop is left.  The record slot keeps the error.
PumpReadError(g) ==
    /\ pump[g].pc = "read"
    /\ gdb[g] # "none"
    /\ pump' = [pump EXCEPT ![g] = Pump("exited", ErrRec, <<>>, FALSE)]
    /\ UNCHANGED <<engineVars, gdb, pending, rxTok, inbox, state, events,
                   callerVars, readLog, nerr, ghostVars>>

\* The stderr drain thread: every line becomes an Output event on the log
\* channel.
StderrLine(g) ==
    /\ gdb[g] # "none"
    /\ nerr < MaxStderr
    /\ nerr' = nerr + 1
    /\ events' = PublishEvent(events, Event("Output", "Log", "e"))
    /\ UNCHANGED <<engineVars, gdb, pending, rxTok, inbox, state, pump,
                   callerVars, readLog, ghostVars>>

\* Lines the debugger can emit: a reply bearing the token of a command
\* that reached it so far (at most MaxInbox of them while its caller waits, at most
\* MaxLate of them to calls that timed out), an
\* untokened result, exec-async records (also bearing a pending token),
\* notifications, stream records, a blank line and a line with an unknown
\* result class.
ReplyTokens ==
    { t \in FirstToken..(token_counter - 1) :
        /\ t = rxTok => Len(inbox) < MaxInbox
        /\ t \in timedOut => nlate < MaxLate
        /\ \E i \in 1..Len(wire) : wire[i].tok = t /\ wire[i].ok }
ReplyLines(classes) ==
    { Line(t, "^", c, "") : t \in ReplyTokens, c \in classes }
AsyncLines(args) ==
    { Line(t, "*", c, a) : t \in {NoTok} \cup pending,
                           c \in AsyncClasses, a \in args }
StreamLines ==
    { Line(NoTok, p, "", "x") : p \in {"~", "@", "&"} }
OtherLines ==
    { Line(NoTok, "^", "done", ""),
      Line(NoTok, "^", "bogus", ""),
      Line(NoTok, "=", "thread-selected", "2"),
      Line(NoTok, "=", "library-loaded", ""),
      Line(NoTok, "", "", "") }
Lines ==
    ReplyLines({"done", "running", "error"}) \cup AsyncLines({"", "1"})
        \cup StreamLines \cup OtherLines

PumpRead(g) == \E l \in Lines : PumpReadLine(g, l)

\* ---- the caller thread: the &mut self API ------------------------------
StepOps == {"exec_next", "exec_step", "exec_step_instruction",
            "exec_next_instruction"}
SendOps == {"send_command", "exec_run", "exec_continue", "exec_finish",
            "exec_interrupt"} \cup StepOps

\* The typed methods other than the exec ones, by what their match on the
\* reply does.  ConnectOps accept ^connected as well as ^done.  MsgOps have
\* an arm for ^error that returns an error built from the reply's msg;
\* EmptyOps return Ok with an empty list (or None) for every reply that is
\* not ^done; the rest return a fixed error for every reply that is not
\* ^done.  DecodeOps build their value from the results of the ^done reply.
ConnectOps == {"target_connect_remote", "target_connect_extended_remote"}
MsgOps == {"file_exec_and_symbols", "target_disconnect", "set_architecture",
           "break_insert", "break_delete", "watch_insert", "var_create"}
              \cup ConnectOps
FixedErrOps == {"break_enable", "break_disable", "stack_select_frame",
                "thread_select", "data_read_memory",
                "data_evaluate_expression", "var_delete",
                "var_evaluate_expression"}
EmptyOps == {"break_list", "stack_list_frames", "stack_info_frame",
             "thread_list_ids", "data_list_register_names",
             "data_list_register_values", "var_list_children"}
DecodeOps == {"break_insert", "watch_insert", "data_read_memory",
              "data_evaluate_expression", "var_create",
              "var_evaluate_expression"}
\* The decoder of var_create (parse_variable) has no failing path: a field
\* the reply lacks is filled in (name from the method's argument) or left None.
DefaultingOps == {"var_create"}
TypedOps == MsgOps \cup FixedErrOps \cup EmptyOps

ApiOps  == {"start", "stop", "drop", "send_command_async", "event_receiver"}
               \cup SendOps
               \cup TypedOps

\* The arguments a call can pass, for the methods that store their argument
\* in the session state: a file, an architecture, a frame level, a thread
\* id (levels are written as decimal strings).
ArgsOf(o) ==
    IF o = "file_exec_and_symbols" THEN {"a.out", "b.out"}
    ELSE IF o = "set_architecture" THEN {"arm", "riscv:rv32"}
    ELSE IF o = "stack_select_frame" THEN {"0", "1"}
    ELSE IF o = "thread_select" THEN {"1", "2"}
    ELSE {""}

\* What an API call returned: the method, Ok or Err, the error, and the class
\* of the reply it acted on ("" when it got none).
Ret(o, st, why, c) == [op |-> o, status |-> st, why |-> why, class |-> c]
NoRet == Ret("none", "none", "", "")

\* The API method returns to its caller; its locals are gone.  When the
\* method was drop, the engine is gone too.
Return(st, why) ==
    /\ ret' = Ret(op, st, why, resp.class)
    /\ op' = "none"
    /\ pc' = IF op = "drop" THEN "dropped" ELSE "idle"
    /\ tok' = NoTok
    /\ initStep' = 0
    /\ arg' = ""
    /\ resp' = NoRec

\* Variables a caller step leaves alone unless it names them.
pumpSide == <<gdb, events, pump, readLog, nerr, lastAsync, stoppedSince,
              nlate, nbad>>

\* A drop that frees the engine without a shutdown.
DropPcNoStop == "dropped"

\* Where drop starts: let _ = self.stop();
DropPc == "stop"

\* The host calls an API method (or drops the engine); the engine is
\* borrowed mutably, so a call starts only when no other call is in progress.
Call(o) ==
    /\ pc = "idle"
    /\ op' = o
    /\ pc' = IF o = "start" THEN "start"
             ELSE IF o = "stop" THEN "stop"
             ELSE IF o = "drop" THEN DropPc
             ELSE IF o = "send_command_async" THEN "async"
             ELSE IF o = "event_receiver" THEN "event_receiver"
             ELSE "sc_begin"
    /\ arg' \in ArgsOf(o)
    /\ ret' = NoRet
    /\ UNCHANGED <<engineVars, pending, rxTok, inbox, state, tok, initStep,
                   resp, timedOut, pumpSide>>

CallApi == \E o \in ApiOps : Call(o)

\* A getter that hands out the receiver and keeps it.
EventRxKept(rx) == rx

\* self.event_rx.take(): what is left in the field.
EventRxTaken(rx) == FALSE

\* event_receiver: Some(receiver) when the field still holds it, else None.
EventReceiver ==
    /\ pc = "event_receiver"
    /\ event_rx' = EventRxTaken(event_rx)
    /\ Return("Ok", IF event_rx THEN "some" ELSE "none")
    /\ UNCHANGED <<process, stdin, gen, token_counter, wire, config,
                   parserVars, lockVars, pending, rxTok, inbox, state, timedOut,
                   pumpSide>>

\* A guard that lets every start through.
AlreadyStartedNever(p) == FALSE

\* A guard that tests the connected flag of the session instead of the slot.
AlreadyStartedWhenConnected(p) == p /\ state.connected

\* if self.process.is_some() { return Err(..) }
AlreadyStarted(p) == p

\* start, up to the spawn of the two reader threads.
StartSpawn ==
    /\ pc = "start"
    /\ IF AlreadyStarted(process)
       THEN /\ Return("Err", "already running")
            /\ UNCHANGED <<engineVars, gdb, pump>>
       ELSE /\ gen < MaxSpawns
            /\ process' = TRUE
            /\ stdin' = TRUE
            /\ gen' = gen + 1
            /\ gdb' = [gdb EXCEPT ![gen + 1] = "alive"]
            /\ pump' = [pump EXCEPT ![gen + 1] = PumpIdle]
            /\ initStep' = 1
            /\ pc' = "sc_begin"
            /\ UNCHANGED <<token_counter, wire, event_rx, config, parserVars, lockVars, op, tok,
                           arg, resp, ret>>
    /\ UNCHANGED <<pending, rxTok, inbox, state, events, readLog, nerr,
                   ghostVars>>

\* A counter that is read without being advanced.
FetchAddNone(c) == c

\* self.token_counter.fetch_add(1, Ordering::SeqCst): the counter afterwards.
FetchAdd(c) == c + 1

\* The commands initialize sends, in program order.
HandshakeCmdSwapped(i) ==
    IF i = 1 THEN "gdb-set pagination off"
    ELSE IF i = 2 THEN "gdb-set mi-async on"
    ELSE "gdb-set confirm off"

HandshakeCmd(i) ==
    IF i = 1 THEN "gdb-set mi-async on"
    ELSE IF i = 2 THEN "gdb-set pagination off"
    ELSE "gdb-set confirm off"

\* The command text an API call hands to send_command; the text of a
\* command other than the handshake's is not told apart.
\* format!("gdb-set architecture {}", arch)
ArchCommand(a) ==
    IF a = "arm" THEN "gdb-set architecture arm"
    ELSE IF a = "riscv:rv32" THEN "gdb-set architecture riscv:rv32"
    ELSE "gdb-set architecture "

CommandOf(o, i, a) ==
    IF o = "start" THEN HandshakeCmd(i)
    ELSE IF o = "set_architecture" THEN ArchCommand(a)
    ELSE "command"

\* stdin.write_all / flush on the pipe of debugger g: it succeeds while the
\* process lives and fails with a broken pipe once it has exited.
WriteOk(g) == g \in Gens /\ gdb[g] = "alive"

\* One write call: the debugger written to, the token and command of the
\* line, and whether the write succeeded.
Written(g, t, c, ok) == [gen |-> g, tok |-> t, cmd |-> c, ok |-> ok]

\* A check of the stdin handle made only after the token was taken.
StdinMissingLate(s) == FALSE

\* self.stdin.as_mut().ok_or_else(|| anyhow!("GDB not running"))?
StdinMissing(s) == ~s

\* send_command up to the wait: the stdin check, fetch_add on the counter, the
\* channel, the locked insert into the pending table, and the write and flush
\* of the tokened command.  A failed write returns through the ?, past the
\* cleanup of the pending table.
ScBegin ==
    /\ pc = "sc_begin"
    /\ IF StdinMissing(stdin)
       THEN /\ Return("Err", "not running")
            /\ UNCHANGED <<token_counter, wire, pending, rxTok, inbox>>
       ELSE /\ token_counter <= MaxToken
            /\ token_counter' = FetchAdd(token_counter)
            /\ pending' = pending \cup {token_counter}
            /\ wire' = Append(wire, Written(gen, token_counter,
                                            CommandOf(op, initStep, arg),
                                            WriteOk(gen)))
            /\ inbox' = <<>>
            /\ IF WriteOk(gen)
               THEN /\ tok' = token_counter
                    /\ rxTok' = token_counter
                    /\ pc' = "sc_wait"
                    /\ UNCHANGED <<op, initStep, arg, resp, ret>>
               ELSE /\ rxTok' = NoTok
                    /\ Return("Err", "write")
    /\ UNCHANGED <<process, stdin, gen, event_rx, config, parserVars, lockVars, state, timedOut,
                   pumpSide>>

\* rx.recv_timeout(timeout) returns a record.
ScRecv ==
    /\ pc = "sc_wait"
    /\ inbox # <<>>
    /\ resp' = Head(inbox)
    /\ inbox' = Tail(inbox)
    /\ pc' = "sc_cleanup"
    /\ UNCHANGED <<engineVars, pending, rxTok, state, op, tok, initStep, arg,
                   ret,
                   timedOut, pumpSide>>

\* rx.recv_timeout(timeout) gives up: the ? returns the error from
\* send_command and from the API method, rx is dropped.
ScTimeout ==
    /\ pc = "sc_wait"
    /\ inbox = <<>>
    /\ rxTok' = NoTok
    /\ timedOut' = timedOut \cup {tok}
    /\ Return("Err", "timeout")
    /\ UNCHANGED <<engineVars, pending, inbox, state, pumpSide>>

\* { let mut pending = ..lock().unwrap(); pending.remove(&token); } Ok(response)
ScCleanup ==
    /\ pc = "sc_cleanup"
    /\ pending' = pending \ {tok}
    /\ rxTok' = NoTok
    /\ inbox' = <<>>
    /\ pc' = "handle"
    /\ UNCHANGED <<engineVars, state, op, tok, initStep, arg, resp, ret,
                   timedOut,
                   pumpSide>>

\* A fire-and-forget command that registers its token like send_command.
AsyncPendingInserted(map, t) == map \cup {t}

\* send_command_async has no pending_responses statement between its
\* fetch_add and its write: the table is as it was.
AsyncPending(map, t) == map

\* send_command_async: stdin check, fetch_add, write; no pending entry.
SendCommandAsync ==
    /\ pc = "async"
    /\ IF StdinMissing(stdin)
       THEN /\ Return("Err", "not running")
            /\ UNCHANGED <<token_counter, wire, pending>>
       ELSE /\ token_counter <= MaxToken
            /\ token_counter' = FetchAdd(token_counter)
            /\ pending' = AsyncPending(pending, token_counter)
            /\ wire' = Append(wire, Written(gen, token_counter,
                                            CommandOf(op, initStep, arg),
                                            WriteOk(gen)))
            /\ IF WriteOk(gen) THEN Return("Ok", "")
                               ELSE Return("Err", "write")
    /\ UNCHANGED <<process, stdin, gen, event_rx, config, parserVars, lockVars, rxTok,
                   inbox, state,
                   timedOut, pumpSide>>

\* initialize: the reply to a handshake command is dropped; after the third
\* one start marks the session connected.
HandleStart ==
    /\ pc = "handle"
    /\ op = "start"
    /\ IF initStep < HandshakeLen
       THEN /\ initStep' = initStep + 1
            /\ pc' = "sc_begin"
            /\ UNCHANGED <<state, op, tok, arg, resp, ret>>
       ELSE /\ state' = [state EXCEPT !.connected = TRUE]
            /\ Return("Ok", "")
    /\ UNCHANGED <<engineVars, pending, rxTok, inbox, timedOut, pumpSide>>

\* The raw command: the record is handed back as it is.
HandleRaw ==
    /\ pc = "handle"
    /\ op = "send_command"
    /\ Return("Ok", "")
    /\ UNCHANGED <<engineVars, pending, rxTok, inbox, state, timedOut,
                   pumpSide>>

\* What an exec method does with its reply: "set" writes running=true and
\* returns Ok, "set_wait" writes it and enters wait_for_stop, "wait" enters
\* wait_for_stop, "ok" returns Ok, "clear" writes running=false and returns
\* Ok, "err" returns an error.
ExecReplyAction(o, class) ==
    IF o = "exec_run"
        THEN (IF class = "running" THEN "set"
              ELSE IF class = "error" THEN "err_msg" ELSE "err")
    ELSE IF o = "exec_continue"
        THEN (IF class = "running" THEN "set_wait"
              ELSE IF class = "error" THEN "err_msg" ELSE "err")
    ELSE IF o \in StepOps
        THEN (IF class = "running" THEN "wait"
              ELSE IF class = "done" THEN "ok"
              ELSE IF class = "error" THEN "err_msg" ELSE "err")
    ELSE IF o = "exec_finish" THEN (IF class = "running" THEN "ok" ELSE "err")
    ELSE IF o = "exec_interrupt" THEN (IF class = "done" THEN "clear" ELSE "err")
    ELSE "err"

HandleExec ==
    /\ pc = "handle"
    /\ op \in SendOps \ {"send_command"}
    /\ LET a == ExecReplyAction(op, resp.class) IN
       /\ state' = IF a \in {"set", "set_wait"}
                       THEN [state EXCEPT !.running = TRUE]
                   ELSE IF a = "clear" THEN [state EXCEPT !.running = FALSE]
                   ELSE state
       /\ IF a \in {"set_wait", "wait"}
          THEN /\ pc' = "wait_for_stop"
               /\ UNCHANGED <<op, tok, initStep, arg, resp, ret>>
          ELSE IF a = "err_msg" THEN Return("Err", "msg")
          ELSE IF a = "err" THEN Return("Err", "reply")
          ELSE Return("Ok", "")
    /\ UNCHANGED <<engineVars, pending, rxTok, inbox, timedOut, pumpSide>>

\* What a typed method does with its reply: "ok" stores what the method
\* stores and returns Ok with the decoded value, "ok_empty" returns Ok with
\* an empty list or None, "ok_default" returns Ok with a value filled in
\* because the ^done reply lacks it, "err_msg" returns an error carrying the
\* reply's msg, "err_parse" an error because the ^done reply lacks the value,
\* "err" a fixed error.
ApiReplyAction(o, rec) ==
    IF rec.kind = "Result"
           /\ (rec.class = "done" \/ (o \in ConnectOps /\ rec.class = "connected"))
        THEN (IF o \in DecodeOps /\ rec.arg = ""
              THEN (IF o \in DefaultingOps THEN "ok_default" ELSE "err_parse")
              ELSE "ok")
    ELSE IF o \in MsgOps
        THEN (IF rec.kind = "Result" /\ rec.class = "error" THEN "err_msg"
              ELSE "err")
    ELSE IF o \in EmptyOps THEN "ok_empty"
    ELSE "err"

\* The state write of a typed method whose command succeeded.
ApiStateWrite(o, a, st) ==
    IF o = "file_exec_and_symbols" THEN [st EXCEPT !.executable = a]
    ELSE IF o \in ConnectOps THEN [st EXCEPT !.target_remote = TRUE]
    ELSE IF o = "target_disconnect" THEN [st EXCEPT !.target_remote = FALSE]
    ELSE IF o = "set_architecture" THEN [st EXCEPT !.architecture = a]
    ELSE IF o = "stack_select_frame" THEN [st EXCEPT !.current_frame = a]
    ELSE IF o = "thread_select" THEN [st EXCEPT !.current_thread = a]
    ELSE st

\* A state write hoisted out of the match, ahead of every arm.
InSuccessArmAlways(a) == TRUE

\* The state write of a typed method is the body of the arm that matches the
\* success class.
InSuccessArm(a) == a = "ok"

\* A typed method matches on the record send_command returned.
HandleApi ==
    /\ pc = "handle"
    /\ op \in TypedOps
    /\ LET a == ApiReplyAction(op, resp) IN
       /\ state' = IF InSuccessArm(a) THEN ApiStateWrite(op, arg, state)
                   ELSE state
       /\ IF a = "ok" THEN Return("Ok", "")
          ELSE IF a = "ok_empty" THEN Return("Ok", "empty")
          ELSE IF a = "ok_default" THEN Return("Ok", "default")
          ELSE IF a = "err_msg" THEN Return("Err", "msg")
          ELSE IF a = "err_parse" THEN Return("Err", "parse")
          ELSE Return("Err", "reply")
    /\ UNCHANGED <<engineVars, pending, rxTok, inbox, timedOut, pumpSide>>

\* wait_for_stop: a poll that finds running=false returns Ok.
WaitForStopOk ==
    /\ pc = "wait_for_stop"
    /\ ~state.running
    /\ Return("Ok", "")
    /\ UNCHANGED <<engineVars, pending, rxTok, inbox, state, timedOut,
                   pumpSide>>

\* A wait that gives up quietly.
StopTimeoutStatusOk == "Ok"

\* return Err(anyhow!("Timeout waiting for target to stop"));
StopTimeoutStatus == "Err"

\* wait_for_stop: a poll finds running=true and the bound has elapsed.
WaitForStopTimeout ==
    /\ pc = "wait_for_stop"
    /\ state.running
    /\ Return(StopTimeoutStatus, "stop timeout")
    /\ UNCHANGED <<engineVars, pending, rxTok, inbox, state, timedOut,
                   pumpSide>>

\* A shutdown that asks the debugger to quit with the CLI command.
ExitCommandCli == "quit"

\* stdin.write_all(b"-gdb-exit\n")
ExitCommand == "-gdb-exit"

\* stop, first part: take the process out of the engine and write the
\* graceful-exit command (its failure is ignored); Ok at once when the
\* engine holds no process.
StopBegin ==
    /\ pc = "stop"
    /\ IF process
       THEN /\ process' = FALSE
            /\ wire' = IF stdin
                       THEN Append(wire, Written(gen, NoTok, ExitCommand,
                                                 WriteOk(gen)))
                       ELSE wire
            /\ pc' = "stop_kill"
            /\ UNCHANGED <<op, tok, initStep, arg, resp, ret>>
       ELSE /\ Return("Ok", "")
            /\ UNCHANGED <<process, wire>>
    /\ UNCHANGED <<stdin, gen, token_counter, event_rx, config, parserVars, lockVars, pending,
                   rxTok, inbox, state,
                   timedOut, pumpSide>>

\* stop, after the sleep: let _ = process.kill();
StopKill ==
    /\ pc = "stop_kill"
    /\ gdb' = [gdb EXCEPT ![gen] = "zombie"]
    /\ pc' = "stop_wait"
    /\ UNCHANGED <<engineVars, pending, rxTok, inbox, state, events, pump,
                   op, tok, initStep, arg, resp, ret, readLog, nerr,
                   ghostVars>>

\* stop: let _ = process.wait(); self.stdin = None;
StopWait ==
    /\ pc = "stop_wait"
    /\ gdb[gen] = "zombie"
    /\ gdb' = [gdb EXCEPT ![gen] = "reaped"]
    /\ stdin' = FALSE
    /\ pc' = "stop_state"
    /\ UNCHANGED <<process, gen, token_counter, wire, event_rx, config, parserVars, lockVars,
                   pending, rxTok, inbox,
                   state, events, pump, op, tok, initStep, arg, resp, ret,
                   readLog,
                   nerr, ghostVars>>

\* A stop that puts the whole session state back to its default.
StoppedStateReset(st) ==
    [connected |-> FALSE, running |-> FALSE, current_thread |-> "",
     executable |-> "", architecture |-> "", target_remote |-> FALSE,
     current_frame |-> ""]

\* A stop that marks the session not running only.
StoppedStateKeepsConnected(st) == [st EXCEPT !.running = FALSE]

\* A stop that marks the session disconnected only.
StoppedStateKeepsRunning(st) == [st EXCEPT !.connected = FALSE]

\* { state.connected = false; state.running = false; }
StoppedState(st) == [st EXCEPT !.connected = FALSE, !.running = FALSE]

\* stop, last part: the locked state write, then Ok.
StopState ==
    /\ pc = "stop_state"
    /\ state' = StoppedState(state)
    /\ Return("Ok", "")
    /\ UNCHANGED <<engineVars, pending, rxTok, inbox, timedOut, pumpSide>>

\* The debugger process exits by itself: it obeyed -gdb-exit, or it crashed.
GdbExit(g) ==
    /\ gdb[g] = "alive"
    /\ gdb' = [gdb EXCEPT ![g] = "zombie"]
    /\ UNCHANGED <<engineVars, pending, rxTok, inbox, state, events, pump,
                   callerVars, readLog, nerr, ghostVars>>

\* ---- specification ------------------------------------------------------
\* GdbConfig::default(): no architecture tag.
DefaultConfig == [architecture |-> ""]

\* GdbClient::new(config)
New(cfg) ==
    /\ config = cfg
    /\ process = FALSE
    /\ stdin = FALSE
    /\ gen = 0
    /\ gdb = [g \in Gens |-> "none"]
    /\ wire = <<>>
    /\ token_counter = FirstToken
    /\ event_rx = TRUE
    /\ pending = {}
    /\ pending_lock = NoThread
    /\ state_lock = NoThread
    /\ rxTok = NoTok
    /\ inbox = <<>>
    /\ state = [connected |-> FALSE, running |-> FALSE, current_thread |-> "",
                executable |-> "", architecture |-> "",
                target_remote |-> FALSE, current_frame |-> ""]
    /\ events = <<>>
    /\ pump = [g \in Gens |-> Pump("none", NoRec, <<>>, FALSE)]
    /\ op = "none"
    /\ pc = "idle"
    /\ tok = NoTok
    /\ initStep = 0
    /\ arg = ""
    /\ resp = NoRec
    /\ ret = NoRet
    /\ readLog = <<>>
    /\ nerr = 0
    /\ lastAsync = "none"
    /\ stoppedSince = FALSE
    /\ timedOut = {}
    /\ nlate = 0
    /\ nbad = 0

\* What the parser variables hold while no input has been parsed.
Unparsed == [done |-> FALSE, out |-> <<>>]
NoText == text = <<>> /\ parsed = Unparsed

Init == New(DefaultConfig) /\ NoText

Next ==
    \/ CallApi
    \/ StartSpawn
    \/ ScBegin
    \/ ScRecv
    \/ ScTimeout
    \/ ScCleanup
    \/ SendCommandAsync
    \/ HandleStart
    \/ HandleRaw
    \/ HandleExec
    \/ HandleApi
    \/ EventReceiver
    \/ WaitForStopOk
    \/ WaitForStopTimeout
    \/ StopBegin
    \/ StopKill
    \/ StopWait
    \/ StopState
    \/ \E g \in Gens : GdbExit(g)
    \/ \E g \in Gens : PumpRead(g)
    \/ \E g \in Gens : PumpHandle(g)
    \/ \E g \in Gens : PumpEof(g)
    \/ \E g \in Gens : PumpReadError(g)
    \/ \E g \in Gens : StderrLine(g)

Spec == Init /\ [][Next]_vars

\* ---- scenario: the token dispatcher --------------------------------------
\* start, raw commands and fire-and-forget commands against a debugger that
\* answers in any order and interleaves every kind of record.
DispatchOps == {"start", "send_command", "send_command_async"}
DispatchLines ==
    ReplyLines({"done"})
        \cup { Line(t, "*", "stopped", "") : t \in {NoTok} \cup pending }
        \cup { Line(NoTok, "~", "", "x"),
               Line(NoTok, "^", "done", ""),
               Line(NoTok, "=", "library-loaded", ""),
               Line(NoTok, "", "", "") }

CallDispatch == \E o \in DispatchOps : Call(o)
PumpReadDispatch == \E g \in Gens : \E l \in DispatchLines : PumpReadLine(g, l)

NextDispatch ==
    \/ CallDispatch
    \/ StartSpawn
    \/ ScBegin
    \/ ScRecv
    \/ ScTimeout
    \/ ScCleanup
    \/ SendCommandAsync
    \/ HandleStart
    \/ HandleRaw
    \/ PumpReadDispatch
    \/ \E g \in Gens : PumpHandle(g)

SpecDispatch == Init /\ [][NextDispatch]_vars

\* ---- claims on the token dispatcher (SpecDispatch) -----------------------
\* C1: whenever send_command has a record to return, it is a Result record
\* bearing the token that call allocated.
C1_ReplyBearsOwnToken ==
    pc \in {"sc_cleanup", "handle"} =>
        resp.kind = "Result" /\ resp.token = tok

\* A raw command got its own reply although a reply to a timed-out token
\* and other records came through the pump.
C1_Witness ==
    /\ pc = "handle"
    /\ op = "send_command"
    /\ resp.token = tok
    /\ nlate > 0
    /\ events # <<>>

\* C2 as stated: the pending table holds exactly the token of the
\* send_command call that has not returned yet, and nothing else.
C2_PendingIffOutstanding ==
    pending = IF pc \in {"sc_wait", "sc_cleanup"} THEN {tok} ELSE {}

\* C3: a reply bearing the token of a call that timed out is dropped: the
\* step in which the pump dispatches it puts nothing on a reply channel,
\* hands nothing to a caller, publishes no event, writes no session state,
\* and leaves the pump reading.
C3_LateReplyDiscarded ==
    [][nlate' > nlate =>
          /\ inbox' = inbox
          /\ resp' = resp
          /\ events' = events
          /\ state' = state
          /\ pump' = pump
          /\ \E g \in Gens : pump[g].pc = "read"]_vars

\* A later call waits with an empty channel after the pump dispatched the
\* late reply of a timed-out call, and the pump is still reading.
C3_Witness ==
    /\ nlate > 0
    /\ pc = "sc_wait"
    /\ inbox = <<>>
    /\ \E g \in Gens : pump[g].pc = "read"

\* C7: a reply whose token is in the pending table goes to that token's
\* channel only, and the pump publishes no event and writes no session
\* state for it: a step that puts a record on the live reply channel puts a
\* record whose token is that channel's and is in the table, and neither
\* that step nor the dispatch of a reply whose receiver is gone touches the
\* event queue or the session state.
C7_MatchedReplyNotFannedOut ==
    [][(Len(inbox') > Len(inbox) \/ nlate' > nlate) =>
          /\ events' = events
          /\ state' = state
          /\ readLog' = readLog
          /\ Len(inbox') > Len(inbox) =>
                LET r == inbox'[Len(inbox')] IN
                /\ r.token = rxTok
                /\ r.token \in pending
                /\ inbox' = Append(inbox, r)]_vars

\* A reply sits on the channel of the waiting call.
C7_Witness ==
    /\ pc = "sc_wait"
    /\ inbox # <<>>
    /\ Head(inbox).token = tok

\* ---- scenario: execution control ----------------------------------------
\* start and the exec methods against a debugger that answers each command
\* and reports the inferior running and stopping.
ExecOps == {"start"} \cup (SendOps \ {"send_command"})
ExecLines ==
    ReplyLines({"running", "done", "error"})
        \cup { Line(NoTok, "*", c, "") : c \in AsyncClasses }
        \cup { Line(NoTok, "", "", "") }

CallExec == \E o \in ExecOps : Call(o)
PumpReadExec == \E g \in Gens : \E l \in ExecLines : PumpReadLine(g, l)

NextExec ==
    \/ CallExec
    \/ StartSpawn
    \/ ScBegin
    \/ ScRecv
    \/ ScTimeout
    \/ ScCleanup
    \/ HandleStart
    \/ HandleExec
    \/ WaitForStopOk
    \/ WaitForStopTimeout
    \/ PumpReadExec
    \/ \E g \in Gens : PumpHandle(g)

SpecExec == Init /\ [][NextExec]_vars

\* ---- claims on execution control (SpecExec) ------------------------------
\* C4 as stated: in a started session the running flag is true exactly when
\* the last exec-async record the pump processed had class running.
C4_RunningIffLastAsyncRunning ==
    state.connected => (state.running <=> lastAsync = "running")

\* C5 as stated: once exec_run or exec_continue has its ^running reply and
\* has made its own write of running=true, and the pump has processed a
\* *stopped record after that reply with no *running after it, the running
\* flag is false, so a wait_for_stop poll returns Ok.
C5_StoppedWinsOverCallerWrite ==
    LET o == IF pc = "idle" THEN ret.op ELSE op
        c == IF pc = "idle" THEN ret.class ELSE resp.class
    IN  /\ state.connected
        /\ pc \in {"idle", "wait_for_stop"}
        /\ o \in {"exec_run", "exec_continue"}
        /\ c = "running"
        /\ stoppedSince
        /\ lastAsync = "stopped"
        /\ \A g \in Gens : pump[g].pc # "handle"
        => ~state.running

\* C6 as stated: a step method that returns Ok on a ^running reply returns
\* only after the pump processed a *stopped record read after that reply.
C6_StepReturnsAfterStop ==
    (ret.op \in StepOps /\ ret.status = "Ok" /\ ret.class = "running")
        => stoppedSince

\* ---- scenario: the event bus ---------------------------------------------
\* A starting session whose debugger emits replies, exec-async records (a
\* *stopped also under the token of the waiting command), thread-selected
\* notifications and all three streams, while the stderr drain runs.
EventLines ==
    ReplyLines({"done"})
        \cup { Line(t, "*", "stopped", "1") : t \in {NoTok} \cup pending }
        \cup { Line(NoTok, "*", "running", "1") }
        \cup { Line(NoTok, "=", "thread-selected", "2") }
        \cup StreamLines

CallEvents == Call("start")
PumpReadEvents == \E g \in Gens : \E l \in EventLines : PumpReadLine(g, l)

NextEvents ==
    \/ CallEvents
    \/ StartSpawn
    \/ ScBegin
    \/ ScRecv
    \/ ScTimeout
    \/ ScCleanup
    \/ HandleStart
    \/ PumpReadEvents
    \/ \E g \in Gens : PumpHandle(g)
    \/ \E g \in Gens : StderrLine(g)

SpecEvents == Init /\ [][NextEvents]_vars

\* ---- claims on the event bus (SpecEvents) --------------------------------
StreamKinds == {"Console", "Target", "Log"}

\* C8: only Result records are put on a reply channel or handed to a
\* caller; the step that reads a stream record appends exactly the Output
\* event of the matching channel and finishes the record; the step that
\* reads an exec-async record, whatever its token, puts nothing on a reply
\* channel.
C8_OnlyResultsOnReplyChannel ==
    [][/\ Len(inbox') > Len(inbox) => inbox'[Len(inbox')].kind = "Result"
       /\ resp' # resp => resp'.kind \in {"Result", "None"}
       /\ readLog' # readLog =>
             LET r == readLog'[Len(readLog')] IN
             /\ inbox' = inbox
             /\ resp' = resp
             /\ r.kind \in StreamKinds =>
                   /\ events' = Append(events, Event("Output", r.kind, r.arg))
                   /\ pump' = pump]_vars

\* The caller still waits with an empty channel after the pump read an
\* exec-async record bearing the caller's token and then a stream record,
\* and the stream's Output event is queued.
C8_Witness ==
    /\ pc = "sc_wait"
    /\ inbox = <<>>
    /\ \E i, j \in 1..Len(readLog) :
          /\ i < j
          /\ readLog[i].kind = "Async"
          /\ readLog[i].token = tok
          /\ readLog[j].kind \in StreamKinds
          /\ \E k \in 1..Len(events) : events[k] = EventOf(readLog[j])

\* Events that come from stdout lines (the stderr drain publishes the rest).
StdoutEvents == SelectSeq(events, LAMBDA e : e # Event("Output", "Log", "e"))

\* C9: the events made from stdout lines are queued in the order their
\* lines were read: the i-th such event is the event of the i-th record the
\* pump acted on.
C9_EventsInReadOrder ==
    /\ Len(StdoutEvents) <= Len(readLog)
    /\ \A i \in 1..Len(StdoutEvents) : StdoutEvents[i] = EventOf(readLog[i])

\* Two different stdout events are queued, with a stderr event among them.
C9_Witness ==
    /\ Len(StdoutEvents) >= 2
    /\ StdoutEvents[1] # StdoutEvents[2]
    /\ Len(events) > Len(StdoutEvents)

\* C10: when a Stopped or Running event is queued, the pump that queues it
\* has already run the state write of the same record and the session state
\* shows it; when a ThreadSelected event is queued, the session state shows
\* its thread.
C10_StateWrittenBeforeEvent ==
    [][Len(events') > Len(events) =>
          LET e == events'[Len(events')] IN
          /\ e.type \in {"Stopped", "Running"} =>
                /\ \E g \in Gens : /\ pump[g].pc = "handle"
                                   /\ pump[g].wrote
                                   /\ EventOf(pump[g].rec) = e
                /\ state.running = (e.type = "Running")
                /\ e.type = "Stopped" => state.current_thread = e.arg
          /\ e.type = "ThreadSelected" =>
                state'.current_thread = e.arg]_vars

\* Stopped and ThreadSelected events are both queued.
C10_Witness ==
    /\ \E k \in 1..Len(events) : events[k].type = "Stopped"
    /\ \E k \in 1..Len(events) : events[k].type = "ThreadSelected"

\* ---- scenario: tokens over the life of the engine ------------------------
\* start, stop and the two kinds of raw command in any order, over more than
\* one debugger process, against a debugger that answers or stays silent.
TokenOps == {"start", "stop", "send_command", "send_command_async"}
TokenLines == ReplyLines({"done"}) \cup { Line(NoTok, "", "", "") }

CallTokens == \E o \in TokenOps : Call(o)
PumpReadTokens == \E g \in Gens : \E l \in TokenLines : PumpReadLine(g, l)

NextTokens ==
    \/ CallTokens
    \/ StartSpawn
    \/ ScBegin
    \/ ScRecv
    \/ ScTimeout
    \/ ScCleanup
    \/ SendCommandAsync
    \/ HandleStart
    \/ HandleRaw
    \/ StopBegin
    \/ StopKill
    \/ StopWait
    \/ StopState
    \/ PumpReadTokens
    \/ \E g \in Gens : PumpEof(g)

SpecTokens == Init /\ [][NextTokens]_vars

\* ---- claims on tokens (SpecTokens) ----------------------------------------
\* The tokened write calls made so far, oldest first.
TokenedWrites == SelectSeq(wire, LAMBDA e : e.tok # NoTok)

\* C11: the tokens handed to write calls are 1, 2, 3, ... in this order,
\* one for every allocation the counter records, whichever debugger process
\* the call wrote to: the counter starts at 1, advances by one per
\* allocation, and no token is used twice.
C11_TokensCountUp ==
    /\ Len(TokenedWrites) = token_counter - 1
    /\ \A i \in 1..Len(TokenedWrites) : TokenedWrites[i].tok = i

\* A fire-and-forget command got a token on the second debugger process
\* after tokens were used on the first.
C11_Witness ==
    /\ ret.op = "send_command_async"
    /\ ret.status = "Ok"
    /\ Len(TokenedWrites) >= 2
    /\ TokenedWrites[1].gen = 1
    /\ TokenedWrites[Len(TokenedWrites)].gen = 2

\* C12: inside start, every write is the next handshake command in the
\* order mi-async on, pagination off, confirm off, and from the second one on
\* it is made only when the reply to the previous one has been received;
\* connected becomes true only in start, when exactly these three commands
\* were written to the new debugger and the reply to the third has been
\* received, and a start that returns Ok leaves connected true.
C12_HandshakeInOrder ==
    [][LET expected == <<"gdb-set mi-async on", "gdb-set pagination off",
                         "gdb-set confirm off">>
           mine == SelectSeq(wire, LAMBDA e : e.gen = gen)
       IN  /\ (op = "start" /\ Len(wire') > Len(wire)) =>
                 /\ initStep \in 1..3
                 /\ wire' = Append(wire, [gen |-> gen, tok |-> token_counter,
                                          cmd |-> expected[initStep],
                                          ok |-> TRUE])
                 /\ Len(mine) = initStep - 1
                 /\ initStep > 1 =>
                       /\ resp.kind = "Result"
                       /\ resp.token = mine[initStep - 1].tok
           /\ (state'.connected /\ ~state.connected) =>
                 /\ op = "start"
                 /\ [i \in 1..Len(mine) |-> mine[i].cmd] = expected
                 /\ resp.kind = "Result"
                 /\ resp.token = mine[3].tok
           /\ (ret'.op = "start" /\ ret'.status = "Ok") =>
                 state'.connected]_vars

\* A start returned Ok on the second debugger process.
C12_Witness ==
    /\ ret.op = "start"
    /\ ret.status = "Ok"
    /\ state.connected
    /\ gen = 2

\* C17: a raw command of either kind called while the engine has no stdin
\* handle (never started, or stopped) returns the not-running error and
\* takes no token, inserts no pending entry and makes no write call.
C17_NotStartedNoEffect ==
    [][(pc \in {"sc_begin", "async"} /\ ~stdin /\ pc' # pc) =>
          /\ ret'.status = "Err"
          /\ ret'.why = "not running"
          /\ token_counter' = token_counter
          /\ pending' = pending
          /\ wire' = wire]_vars

\* A fire-and-forget command was refused on an engine that had been started
\* and stopped.
C17_Witness ==
    /\ ret.op = "send_command_async"
    /\ ret.why = "not running"
    /\ gen >= 1
    /\ ~stdin

\* ---- scenario: shutdown ---------------------------------------------------
\* start, stop and drop in any order, against a debugger that answers and
\* reports the inferior running.
ShutdownOps == {"start", "stop", "drop"}
ShutdownLines ==
    ReplyLines({"done"}) \cup { Line(NoTok, "*", "running", "") }

CallShutdown == \E o \in ShutdownOps : Call(o)
PumpReadShutdown ==
    \E g \in Gens : \E l \in ShutdownLines : PumpReadLine(g, l)

NextShutdown ==
    \/ CallShutdown
    \/ StartSpawn
    \/ ScBegin
    \/ ScRecv
    \/ ScTimeout
    \/ ScCleanup
    \/ HandleStart
    \/ StopBegin
    \/ StopKill
    \/ StopWait
    \/ StopState
    \/ PumpReadShutdown
    \/ \E g \in Gens : PumpHandle(g)
    \/ \E g \in Gens : PumpEof(g)

SpecShutdown == Init /\ [][NextShutdown]_vars

\* ---- claims on shutdown (SpecShutdown) -------------------------------------
\* C13: start called on an engine that holds a process returns the
\* already-running error and changes nothing: no process, no reader thread,
\* no write call, no token, no pending entry, the session state as it was.
C13_SecondStartRefused ==
    [][(pc = "start" /\ process /\ pc' # pc) =>
          /\ ret'.status = "Err"
          /\ ret'.why = "already running"
          /\ UNCHANGED <<process, stdin, gen, gdb, pump, wire, token_counter,
                         pending, state>>]_vars

\* A start was refused on a connected session.
C13_Witness ==
    /\ ret.op = "start"
    /\ ret.why = "already running"
    /\ state.connected
    /\ process

PumpReadExit == \E g \in Gens : \E l \in TokenLines : PumpReadLine(g, l)

NextExit ==
    \/ CallShutdown
    \/ StartSpawn
    \/ ScBegin
    \/ ScRecv
    \/ ScTimeout
    \/ ScCleanup
    \/ HandleStart
    \/ StopBegin
    \/ StopKill
    \/ StopWait
    \/ StopState
    \/ PumpReadExit
    \/ \E g \in Gens : PumpEof(g)
    \/ \E g \in Gens : GdbExit(g)

SpecExit == Init /\ [][NextExit]_vars

\* ---- claims on shutdown with a debugger that exits (SpecExit) -------------
\* C15: stop kills the child only after its write call for -gdb-exit on
\* that child's stdin, reaps it only after the kill, and writes the session
\* state only when the child is reaped.
C15_StopOrder ==
    [][/\ (pc = "stop_kill" /\ pc' # pc) =>
             /\ wire # <<>>
             /\ wire[Len(wire)].cmd = "-gdb-exit"
             /\ wire[Len(wire)].gen = gen
       /\ (\E g \in Gens : gdb'[g] = "reaped" /\ gdb[g] # "reaped") =>
             /\ pc = "stop_wait"
             /\ gdb[gen] = "zombie"
             /\ gdb'[gen] = "reaped"
       /\ (pc = "stop_state" /\ pc' # pc) =>
             /\ gdb[gen] = "reaped"
             /\ ~state'.connected]_vars

\* stop is about to write the state after it wrote -gdb-exit to a live
\* debugger, killed it and reaped it.
C15_Witness ==
    /\ op = "stop"
    /\ pc = "stop_state"
    /\ gdb[gen] = "reaped"
    /\ wire[Len(wire)].cmd = "-gdb-exit"
    /\ wire[Len(wire)].ok

\* C16: a drop runs the shutdown of stop: once the drop has reaped the child
\* and when the engine is gone, the engine holds no process and every
\* debugger process it ever spawned has been killed and reaped.
C16_DropReaps ==
    (pc = "dropped" \/ (op = "drop" /\ pc = "stop_state")) =>
        /\ ~process
        /\ \A g \in Gens : gdb[g] \in {"none", "reaped"}

\* A drop killed and reaped the child of a connected session.
C16_Witness ==
    /\ op = "drop"
    /\ pc = "stop_state"
    /\ state.connected
    /\ gdb[gen] = "reaped"

\* ---- scenario: a broken pipe ----------------------------------------------
\* start and raw commands against a debugger that may exit by itself.
PipeOps == {"start", "send_command", "send_command_async"}

CallPipe == \E o \in PipeOps : Call(o)
PumpReadPipe == \E g \in Gens : \E l \in TokenLines : PumpReadLine(g, l)

NextPipe ==
    \/ CallPipe
    \/ StartSpawn
    \/ ScBegin
    \/ ScRecv
    \/ ScTimeout
    \/ ScCleanup
    \/ SendCommandAsync
    \/ HandleStart
    \/ HandleRaw
    \/ PumpReadPipe
    \/ \E g \in Gens : PumpEof(g)
    \/ \E g \in Gens : GdbExit(g)

SpecPipe == Init /\ [][NextPipe]_vars

\* ---- claims on a broken pipe (SpecPipe) ------------------------------------
\* C18 as stated: once a write call on the debugger's stdin has failed and
\* the call has returned, the session is disconnected, and no later call
\* makes another write call on that debugger.
C18_BrokenPipeDisconnects ==
    \A i \in 1..Len(wire) :
        ~wire[i].ok =>
            /\ pc = "idle" => ~state.connected
            /\ \A j \in (i + 1)..Len(wire) : wire[j].gen # wire[i].gen

\* ---- scenario: the typed methods and their replies ------------------------
\* start, the raw command and every typed method other than the exec ones,
\* against a debugger that answers every command before its timeout: a
\* handshake command with ^done, any other command with any result class, a
\* ^done reply with or without the value the method decodes.
TypedCallOps == {"start", "send_command"} \cup TypedOps
TypedLines ==
    IF op = "start" THEN ReplyLines({"done"})
    ELSE ReplyLines({"done", "connected", "error", "exit"})
             \cup { Line(t, "^", "done", "v") : t \in ReplyTokens }

CallTyped == \E o \in TypedCallOps : Call(o)
PumpReadTyped == \E g \in Gens : \E l \in TypedLines : PumpReadLine(g, l)

NextTyped ==
    \/ CallTyped
    \/ StartSpawn
    \/ ScBegin
    \/ ScRecv
    \/ ScCleanup
    \/ HandleStart
    \/ HandleRaw
    \/ HandleApi
    \/ PumpReadTyped

SpecTyped == Init /\ [][NextTyped]_vars

\* ---- claims on error and exit replies (SpecTyped) --------------------------
\* C19 as stated: a typed method whose command was answered with ^error
\* returns an error carrying the reply's msg, never Ok.
C19_ErrorReplyIsError ==
    (ret.op \in TypedOps /\ ret.class = "error") =>
        (ret.status = "Err" /\ ret.why = "msg")

\* C20 as stated: after a method whose command was answered with ^exit has
\* returned, the session is marked disconnected.
C20_ExitReplyDisconnects ==
    (ret.op \in {"send_command"} \cup TypedOps /\ ret.class = "exit") =>
        ~state.connected

\* C21 as stated: a method that decodes a typed value from its reply returns
\* an error when the reply is ^done and lacks the field the method decodes.
C21_AbsentFieldIsError ==
    [][(pc = "handle" /\ op \in DecodeOps /\ resp.class = "done"
            /\ resp.arg = "")
        => ret'.status = "Err"]_vars

\* ---- scenario: continue and wait (fair caller) -----------------------------
\* start and exec_continue against a debugger that answers or stays silent
\* and reports the inferior running and stopping at any time.  The caller
\* thread keeps being scheduled, and both of its waits are bounded by a
\* clock: recv_timeout and the elapsed-time test of wait_for_stop.
ContinueOps == {"start", "exec_continue"}
ContinueLines ==
    ReplyLines({"running", "error"})
        \cup { Line(NoTok, "*", c, "") : c \in AsyncClasses }

CallContinue == \E o \in ContinueOps : Call(o)
PumpReadContinue ==
    \E g \in Gens : \E l \in ContinueLines : PumpReadLine(g, l)

CallerStep ==
    \/ StartSpawn
    \/ ScBegin
    \/ ScRecv
    \/ ScTimeout
    \/ ScCleanup
    \/ HandleStart
    \/ HandleExec
    \/ WaitForStopOk
    \/ WaitForStopTimeout

NextContinue ==
    \/ CallContinue
    \/ CallerStep
    \/ PumpReadContinue
    \/ \E g \in Gens : PumpHandle(g)

SpecContinue == Init /\ [][NextContinue]_vars /\ WF_vars(CallerStep)

\* ---- claims on exec_continue (SpecContinue) --------------------------------
\* C22: exec_continue returns once its command is written; when it returns
\* from wait_for_stop and no *stopped state write ran since its ^running
\* reply was delivered, it returns the timeout error; it returns Ok only
\* after such a write.
C22_ContinueReturns ==
    /\ [][(op = "exec_continue" /\ pc = "wait_for_stop" /\ pc' = "idle")
           => IF stoppedSince
              THEN ret'.status = "Ok" \/ ret'.why = "stop timeout"
              ELSE ret'.status = "Err" /\ ret'.why = "stop timeout"]_vars
    /\ (op = "exec_continue" /\ pc = "sc_wait") ~> (pc = "idle")

\* Reached: exec_continue gave up waiting for a stop that never came.
C22_Witness ==
    /\ ret.op = "exec_continue"
    /\ ret.status = "Err"
    /\ ret.why = "stop timeout"
    /\ ~stoppedSince
    /\ state.running

\* ---- scenario: the event receiver over the life of the engine -------------
\* start, stop and event_receiver in any order, over more than one debugger
\* process, against a debugger that answers and writes console output.
ReceiverOps == {"start", "stop", "event_receiver"}
ReceiverLines == ReplyLines({"done"}) \cup { Line(NoTok, "~", "", "x") }

CallReceiver == \E o \in ReceiverOps : Call(o)
PumpReadReceiver ==
    \E g \in Gens : \E l \in ReceiverLines : PumpReadLine(g, l)

NextReceiver ==
    \/ CallReceiver
    \/ StartSpawn
    \/ ScBegin
    \/ ScRecv
    \/ ScTimeout
    \/ ScCleanup
    \/ HandleStart
    \/ EventReceiver
    \/ StopBegin
    \/ StopKill
    \/ StopWait
    \/ StopState
    \/ PumpReadReceiver
    \/ \E g \in Gens : PumpEof(g)

SpecReceiver == Init /\ [][NextReceiver]_vars

\* ---- claims on the event receiver (SpecReceiver) ---------------------------
\* C23: the engine holds the receiver until the first event_receiver call,
\* that call returns it, and from then on the engine never holds it again, so
\* every later call returns nothing, whatever stop and start did in between.
C23_ReceiverHandedOutOnce ==
    [][/\ event_rx' # event_rx => pc = "event_receiver"
       /\ ~event_rx => ~event_rx'
       /\ (pc = "event_receiver" /\ pc' # pc) =>
             /\ ret'.why = (IF event_rx THEN "some" ELSE "none")
             /\ ~event_rx']_vars

\* Reached: after the receiver was handed out, a stop and a second start, a
\* later event_receiver call returned nothing.
C23_Witness ==
    /\ ret.op = "event_receiver"
    /\ ret.why = "none"
    /\ gen = 2
    /\ state.connected

\* ---- scenario: lines the parser fails on ------------------------------------
\* start and raw commands against a debugger that, between a command and
\* its reply, emits a notification of a class the parser does not know
\* (=tsv-created is one the debugger really sends), besides console output.
BadLineOps == {"start", "send_command"}
BadLines ==
    IF rxTok # NoTok /\ inbox = <<>>
    THEN { Line(NoTok, "=", "tsv-created", "") }
    ELSE {}
BadLineLines ==
    ReplyLines({"done"}) \cup BadLines \cup { Line(NoTok, "~", "", "x") }

CallBadLine == \E o \in BadLineOps : Call(o)
PumpReadBadLine ==
    \E g \in Gens : \E l \in BadLineLines : PumpReadLine(g, l)

NextBadLine ==
    \/ CallBadLine
    \/ StartSpawn
    \/ ScBegin
    \/ ScRecv
    \/ ScTimeout
    \/ ScCleanup
    \/ HandleStart
    \/ HandleRaw
    \/ PumpReadBadLine

SpecBadLine == Init /\ [][NextBadLine]_vars

\* ---- claims on parse failures (SpecBadLine) ---------------------------------
\* C24: the step in which a pump reads a line the parser fails on leaves the
\* pump reading, and leaves the pending table, the reply channel and the
\* caller's call as they were; a pump ends only when its debugger is gone.
C24_BadLineKeepsPump ==
    [][/\ nbad' > nbad =>
             /\ \A g \in Gens : pump'[g].pc = pump[g].pc
             /\ UNCHANGED <<pending, rxTok, inbox, callerVars>>
       /\ \A g \in Gens :
             (pump[g].pc # "exited" /\ pump'[g].pc = "exited")
                 => gdb[g] \in {"zombie", "reaped"}]_vars

\* Reached: the parser failed on a line while a call waited for its reply,
\* no call has timed out, and a later send_command returned its reply.
C24_Witness ==
    /\ nbad > 0
    /\ timedOut = {}
    /\ ret.op = "send_command"
    /\ ret.status = "Ok"
    /\ \A g \in Gens : pump[g].pc # "exited"

\* C25 as stated: every line the parser fails on is surfaced to the
\* subscriber as one Output event.
C25_BadLineSurfaced ==
    [][nbad' > nbad =>
          /\ Len(events') = Len(events) + 1
          /\ events'[Len(events')].type = "Output"]_vars

\* ---- scenario: an engine configured with an architecture -------------------
\* The engine is constructed with or without an architecture tag; the host
\* calls start, stop and set_architecture in any order and as long as it
\* likes, against a debugger that answers every command with ^done.
ConfigArchs == {"", "arm"}
ArchOps == {"start", "stop", "set_architecture"}
ArchLines == ReplyLines({"done"})

InitArch == (\E a \in ConfigArchs : New([architecture |-> a])) /\ NoText
CallArch == \E o \in ArchOps : Call(o)
PumpReadArch == \E g \in Gens : \E l \in ArchLines : PumpReadLine(g, l)

NextArch ==
    \/ CallArch
    \/ StartSpawn
    \/ ScBegin
    \/ ScRecv
    \/ ScTimeout
    \/ ScCleanup
    \/ HandleStart
    \/ HandleApi
    \/ StopBegin
    \/ StopKill
    \/ StopWait
    \/ StopState
    \/ PumpReadArch
    \/ \E g \in Gens : PumpEof(g)

SpecArch == InitArch /\ [][NextArch]_vars /\ WF_vars(NextArch)

Digit ==
    {"0", "1", "2", "3", "4", "5", "6", "7", "8", "9"}
Lower ==
    {"a", "b", "c", "d", "e", "f", "g", "h", "i", "j", "k", "l", "m",
     "n", "o", "p", "q", "r", "s", "t", "u", "v", "w", "x", "y", "z"}
Upper ==
    {"A", "B", "C", "D", "E", "F", "G", "H", "I", "J", "K", "L", "M",
     "N", "O", "P", "Q", "R", "S", "T", "U", "V", "W", "X", "Y", "Z"}

\* \w of the line patterns, the key test of parse_value, char::is_whitespace
\* (on the characters the inputs use).
WordChar == Digit \cup Lower \cup Upper \cup {"_"}
KeyChar == Digit \cup Lower \cup Upper \cup {"_", "-"}
Space == {" ", "\t"}

From(s, i) == SubSeq(s, i, Len(s))

\* The length of the longest prefix of s made of characters of S.
PrefixLen(s, S) ==
    IF \A i \in 1..Len(s) : s[i] \in S THEN Len(s)
    ELSE (CHOOSE i \in 1..Len(s) :
              s[i] \notin S /\ \A j \in 1..(i - 1) : s[j] \in S) - 1

TrimStart(s) == From(s, PrefixLen(s, Space) + 1)

TrimEnd(s) ==
    IF \A i \in 1..Len(s) : s[i] \in Space THEN <<>>
    ELSE SubSeq(s, 1, CHOOSE i \in 1..Len(s) :
                          s[i] \notin Space
                              /\ \A j \in (i + 1)..Len(s) : s[j] \in Space)

Trim(s) == TrimEnd(TrimStart(s))

\* str::trim_start_matches(c)
TrimStartMatches(s, c) == From(s, PrefixLen(s, {c}) + 1)

\* str::find: the position of the first character of s that is in S, 0 when
\* there is none.
Find(s, S) ==
    IF \E i \in 1..Len(s) : s[i] \in S
    THEN CHOOSE i \in 1..Len(s) :
             s[i] \in S /\ \A j \in 1..(i - 1) : s[j] \notin S
    ELSE 0

\* The same from position i on.
FindFrom(s, i, S) ==
    IF \E p \in i..Len(s) : s[p] \in S
    THEN CHOOSE p \in i..Len(s) :
             s[p] \in S /\ \A j \in i..(p - 1) : s[j] \notin S
    ELSE 0

\* MiValue; a tuple is kept as a sequence of <<key, value>> pairs with no key
\* twice (HashMap::insert replaces).
MiString(s) == [t |-> "String", v |-> s]
MiList(l) == [t |-> "List", v |-> l]
MiTuple(m) == [t |-> "Tuple", v |-> m]
MiNone == [t |-> "None", v |-> <<>>]

\* Result<(value, remaining)>
POk(v, r) == [ok |-> TRUE, val |-> v, rest |-> r]
PErr == [ok |-> FALSE, val |-> <<>>, rest |-> <<>>]

RECURSIVE TupleRemove(_, _)
TupleRemove(m, k) ==
    IF m = <<>> THEN <<>>
    ELSE IF Head(m)[1] = k THEN TupleRemove(Tail(m), k)
    ELSE <<Head(m)>> \o TupleRemove(Tail(m), k)

TupleInsert(m, k, v) == Append(TupleRemove(m, k), <<k, v>>)
TupleHas(m, k) == \E i \in 1..Len(m) : m[i][1] = k
TupleGet(m, k) == m[CHOOSE i \in 1..Len(m) : m[i][1] = k][2]

\* MiParser::get_tuple_string: [some, v]
NoneStr == [some |-> FALSE, v |-> <<>>]
SomeStr(s) == [some |-> TRUE, v |-> s]
get_tuple_string(m, k) ==
    IF TupleHas(m, k) /\ TupleGet(m, k).t = "String"
    THEN SomeStr(TupleGet(m, k).v)
    ELSE NoneStr

\* The character an escape stands for in parse_string; an unknown escape
\* keeps its backslash.
EscapeOf(c) ==
    IF c = "n" THEN <<"\n">>
    ELSE IF c = "t" THEN <<"\t">>
    ELSE IF c = "r" THEN <<"\r">>
    ELSE IF c = "\\" THEN <<"\\">>
    ELSE IF c = "\"" THEN <<"\"">>
    ELSE <<"\\", c>>

\* Where parse_string resumes: pos = input[1..].find('"')? + 2, the position
\* after the first quote character that follows the opening one.
StringResume(input) == From(input, Find(Tail(input), {"\""}) + 2)

\* The loop of parse_string over s = input[1..] from position i.  It steps
\* from one backslash or quote to the next: the characters between are
\* pushed as they are, and the character after a backslash is the escaped one.
RECURSIVE StringLoop(_, _, _, _)
StringLoop(s, i, result, input) ==
    LET p == FindFrom(s, i, {"\\", "\""}) IN
    IF p = 0 THEN PErr
    ELSE IF s[p] = "\""
        THEN POk(result \o SubSeq(s, i, p - 1), StringResume(input))
    ELSE IF p = Len(s) THEN PErr
    ELSE StringLoop(s, p + 2,
                    result \o SubSeq(s, i, p - 1) \o EscapeOf(s[p + 1]),
                    input)

parse_string(input) ==
    IF input = <<>> \/ Head(input) # "\"" THEN PErr
    ELSE StringLoop(Tail(input), 1, <<>>, input)

\* The bracket scans of parse_list, parse_tuple and find_value_end over s
\* from position i: opens raise the depth, closers lower it, and the scan
\* ends at a character of enders that brings the depth to 0.  The result is
\* the final depth and the position where the scan ended (0: it ran off s).
\* The scan steps from one character with a match arm of its own to the
\* next; the escape flag of the source skips the character after a backslash.
RECURSIVE Scan(_, _, _, _, _, _, _)
Scan(s, i, depth, in_string, opens, closers, enders) ==
    LET p == FindFrom(s, i, IF in_string THEN {"\\", "\""}
                            ELSE {"\\", "\""} \cup opens \cup closers)
    IN  IF p = 0 THEN [depth |-> depth, end |-> 0]
        ELSE IF s[p] = "\\"
            THEN Scan(s, p + 2, depth, in_string, opens, closers, enders)
        ELSE IF s[p] = "\""
            THEN Scan(s, p + 1, depth, ~in_string, opens, closers, enders)
        ELSE IF s[p] \in opens
            THEN Scan(s, p + 1, depth + 1, in_string, opens, closers, enders)
        ELSE IF depth = 1 /\ s[p] \in enders
            THEN [depth |-> 0, end |-> p]
        ELSE Scan(s, p + 1, depth - 1, in_string, opens, closers, enders)

\* find_value_end on a quoted value: the position in s, from i on, of the
\* first quote that is not escaped, 0 when there is none.
RECURSIVE QuoteEnd(_, _)
QuoteEnd(s, i) ==
    LET p == FindFrom(s, i, {"\\", "\""}) IN
    IF p = 0 THEN 0
    ELSE IF s[p] = "\\" THEN QuoteEnd(s, p + 2)
    ELSE p

\* Ok((&input[..i + 2], &input[i + 2..])) for a closing character found at
\* position i of input[1..], Err when there is none.
CutAfter(input, i) ==
    IF i = 0 THEN PErr
    ELSE POk(SubSeq(input, 1, i + 1), From(input, i + 2))

\* The text up to the first stop character at position c (0: none) and what
\* follows from that character on.
CutBefore(input, c) ==
    IF c = 0 THEN POk(input, <<>>)
    ELSE POk(SubSeq(input, 1, c - 1), From(input, c))

Closer(open) == IF open = "{" THEN "}" ELSE "]"

\* find_value_end: (the value's text, what follows it)
find_value_end(input) ==
    IF input = <<>> THEN POk(<<>>, <<>>)
    ELSE IF Head(input) = "\""
        THEN CutAfter(input, QuoteEnd(Tail(input), 1))
    ELSE IF Head(input) \in {"{", "["}
        THEN CutAfter(input,
                      Scan(Tail(input), 1, 1, FALSE, {Head(input)},
                           {Closer(Head(input))}, {Closer(Head(input))}).end)
    ELSE CutBefore(input, Find(input, {","}))

\* The second loop of parse_list: the texts between the commas of inner that
\* are at depth 1 and outside a string, trimmed, the empty ones left out.
ListPiece(acc, piece) == IF Trim(piece) = <<>> THEN acc ELSE Append(acc, Trim(piece))

RECURSIVE SplitList(_, _, _, _, _, _)
SplitList(s, i, depth, in_string, start, acc) ==
    LET p == FindFrom(s, i, IF in_string THEN {"\\", "\""}
                            ELSE {"\\", "\"", "{", "}", "[", "]", ","})
    IN  IF p = 0 THEN ListPiece(acc, From(s, start))
        ELSE IF s[p] = "\\"
            THEN SplitList(s, p + 2, depth, in_string, start, acc)
        ELSE IF s[p] = "\""
            THEN SplitList(s, p + 1, depth, ~in_string, start, acc)
        ELSE IF s[p] \in {"{", "["}
            THEN SplitList(s, p + 1, depth + 1, in_string, start, acc)
        ELSE IF s[p] \in {"}", "]"}
            THEN SplitList(s, p + 1, depth - 1, in_string, start, acc)
        ELSE IF depth = 1
            THEN SplitList(s, p + 1, depth, in_string, p + 1,
                           ListPiece(acc, SubSeq(s, start, p - 1)))
        ELSE SplitList(s, p + 1, depth, in_string, start, acc)

KeyMarker == <<"_", "_", "k", "e", "y", "_", "_">>
ValueMarker == <<"_", "_", "v", "a", "l", "u", "e", "_", "_">>

\* Ok((MiValue::String(s), remaining)) and the like: the value of kind t from
\* a parse that succeeded, the error of one that failed (the ? operator).
Tagged(t, r) == IF r.ok THEN POk([t |-> t, v |-> r.val], r.rest) ELSE PErr

\* The special tuple with the __key__ marker for key=value.
Keyed(key, r) ==
    IF r.ok
    THEN POk(MiTuple(<< <<KeyMarker, MiString(key)>>,
                        <<ValueMarker, r.val>> >>),
             r.rest)
    ELSE PErr

\* if let Ok((value, _)) = self.parse_value(elem) { list.push(value); }
ElemOf(r) == IF r.ok THEN <<r.val>> ELSE <<>>

\* Ok((tuple, remaining)) after the while loop, or the loop's error.
WithRemaining(r, remaining) == IF r.ok THEN POk(r.val, remaining) ELSE PErr

\* if current.starts_with(',') { current = current[1..].trim_start(); }
SkipComma(c) ==
    IF c # <<>> /\ Head(c) = "," THEN TrimStart(Tail(c)) ELSE c

\* end_pos of parse_list: 0 when the loop ended without a break.
EndPos(sc) == IF sc.end = 0 THEN 0 ELSE sc.end - 1

RECURSIVE parse_value(_)
RECURSIVE parse_list(_)
RECURSIVE parse_tuple(_)
RECURSIVE ListElems(_)
RECURSIVE TupleLoop(_, _)

ListElems(pieces) ==
    IF pieces = <<>> THEN <<>>
    ELSE ElemOf(parse_value(Head(pieces))) \o ListElems(Tail(pieces))

\* parse_list from "if depth != 0" on: sc is the outcome of the first loop.
ListAfterScan(content, sc) ==
    IF sc.depth # 0 THEN PErr
    ELSE IF Trim(SubSeq(content, 1, EndPos(sc))) = <<>>
        THEN POk(<<>>, From(content, EndPos(sc) + 2))
    ELSE POk(ListElems(SplitList(Trim(SubSeq(content, 1, EndPos(sc))), 1, 1,
                                 FALSE, 1, <<>>)),
             From(content, EndPos(sc) + 2))

parse_list(input) ==
    IF input = <<>> \/ Head(input) # "[" THEN PErr
    ELSE ListAfterScan(Tail(input),
                       Scan(Tail(input), 1, 1, FALSE, {"{", "["}, {"}", "]"},
                            {"]"}))

\* One turn of the while loop of parse_tuple, in the order of the source:
\* the key up to the first '=', the value's text from find_value_end, the
\* parsed value, the insert, the comma.
TupleParsed(key, pv, next, tuple) ==
    IF ~pv.ok THEN PErr
    ELSE TupleLoop(next, TupleInsert(tuple, key, pv.val))

TupleValue(key, fe, tuple) ==
    IF ~fe.ok THEN PErr
    ELSE TupleParsed(key,
                     IF fe.val = <<>> THEN POk(MiNone, <<>>)
                     ELSE parse_value(fe.val),
                     SkipComma(TrimStart(fe.rest)), tuple)

TupleEntry(current, eq, tuple) ==
    IF eq = 0 THEN PErr
    ELSE TupleValue(Trim(SubSeq(current, 1, eq - 1)),
                    find_value_end(TrimStart(From(current, eq + 1))), tuple)

TupleLoop(current, tuple) ==
    IF current = <<>> THEN POk(tuple, <<>>)
    ELSE TupleEntry(current, Find(current, {"="}), tuple)

\* parse_tuple from "if depth != 0" on: sc is the outcome of the first loop.
TupleAfterScan(content, sc) ==
    IF sc.depth # 0 THEN PErr
    ELSE IF Trim(SubSeq(content, 1, sc.end - 1)) = <<>>
        THEN POk(<<>>, From(content, sc.end + 1))
    ELSE WithRemaining(TupleLoop(Trim(SubSeq(content, 1, sc.end - 1)), <<>>),
                       From(content, sc.end + 1))

parse_tuple(input) ==
    IF input = <<>> \/ Head(input) # "{" THEN PErr
    ELSE TupleAfterScan(Tail(input),
                        Scan(Tail(input), 1, 1, FALSE, {"{", "["},
                             {"}", "]"}, {"}", "]"}))

\* The last arm of parse_value: key=value when the text before the first '='
\* (at eq, 0: none) looks like an identifier, a simple value otherwise.
PlainValue(input, eq) ==
    IF eq > 0 /\ \A k \in 1..(eq - 1) : input[k] \in KeyChar
    THEN Keyed(SubSeq(input, 1, eq - 1), parse_value(From(input, eq + 1)))
    ELSE Tagged("String", CutBefore(input, Find(input, {",", "}", "]"})))

\* parse_value after input.trim_start()
ValueOf(input) ==
    IF input = <<>> THEN POk(MiNone, input)
    ELSE IF Head(input) = "\"" THEN Tagged("String", parse_string(input))
    ELSE IF Head(input) = "[" THEN Tagged("List", parse_list(input))
    ELSE IF Head(input) = "{" THEN Tagged("Tuple", parse_tuple(input))
    ELSE PlainValue(input, Find(input, {"="}))

parse_value(input) == ValueOf(TrimStart(input))

MiResult(var, val) == [variable |-> var, value |-> val]

\* Ok((MiResult { variable, value }, remaining))
Named(var, r) ==
    IF r.ok THEN POk(MiResult(var, r.val), r.rest) ELSE PErr

\* parse_result after input.find('=')
ResultAt(input, eq) ==
    IF eq = 0 THEN PErr
    ELSE Named(SubSeq(input, 1, eq - 1), parse_value(From(input, eq + 1)))

parse_result(input) == ResultAt(input, Find(input, {"="}))

RECURSIVE ResultsLoop(_, _)

\* match self.parse_result(current): Err(_) => break returns the results so
\* far.
ResultsStep(r, results) ==
    IF r.ok
    THEN ResultsLoop(TrimStartMatches(r.rest, ","), Append(results, r.val))
    ELSE results

\* The loop of parse_results.
ResultsLoop(current, results) ==
    IF current = <<>> THEN results
    ELSE ResultsStep(parse_result(current), results)

parse_results(input) == ResultsLoop(input, <<>>)

\* unescape_string, used for the stream records.
RECURSIVE unescape_string(_)
unescape_string(s) ==
    IF s = <<>> THEN <<>>
    ELSE IF Head(s) = "\\" /\ Len(s) > 1
                /\ s[2] \in {"n", "t", "r", "\\", "\""}
        THEN EscapeOf(s[2]) \o unescape_string(From(s, 3))
    ELSE <<Head(s)>> \o unescape_string(Tail(s))

\* parse_result_class, parse_async_class, parse_notification_class: the class
\* words each of them knows, as <<class, its text>>.
ResultClassWords ==
    {<<"done", <<"d", "o", "n", "e">>>>,
      <<"running", <<"r", "u", "n", "n", "i", "n", "g">>>>,
      <<"connected", <<"c", "o", "n", "n", "e", "c", "t", "e", "d">>>>,
      <<"error", <<"e", "r", "r", "o", "r">>>>,
      <<"exit", <<"e", "x", "i", "t">>>>}
AsyncClassWords ==
    {<<"stopped", <<"s", "t", "o", "p", "p", "e", "d">>>>,
      <<"running", <<"r", "u", "n", "n", "i", "n", "g">>>>}
NotificationClassWords ==
    {<<"breakpoint-created", <<"b", "r", "e", "a", "k", "p", "o", "i", "n", "t", "-", "c", "r", "e", "a", "t", "e", "d">>>>,
      <<"breakpoint-modified", <<"b", "r", "e", "a", "k", "p", "o", "i", "n", "t", "-", "m", "o", "d", "i", "f", "i", "e", "d">>>>,
      <<"breakpoint-deleted", <<"b", "r", "e", "a", "k", "p", "o", "i", "n", "t", "-", "d", "e", "l", "e", "t", "e", "d">>>>,
      <<"thread-group-added", <<"t", "h", "r", "e", "a", "d", "-", "g", "r", "o", "u", "p", "-", "a", "d", "d", "e", "d">>>>,
      <<"thread-group-started", <<"t", "h", "r", "e", "a", "d", "-", "g", "r", "o", "u", "p", "-", "s", "t", "a", "r", "t", "e", "d">>>>,
      <<"thread-group-exited", <<"t", "h", "r", "e", "a", "d", "-", "g", "r", "o", "u", "p", "-", "e", "x", "i", "t", "e", "d">>>>,
      <<"thread-created", <<"t", "h", "r", "e", "a", "d", "-", "c", "r", "e", "a", "t", "e", "d">>>>,
      <<"thread-selected", <<"t", "h", "r", "e", "a", "d", "-", "s", "e", "l", "e", "c", "t", "e", "d">>>>,
      <<"thread-exited", <<"t", "h", "r", "e", "a", "d", "-", "e", "x", "i", "t", "e", "d">>>>,
      <<"library-loaded", <<"l", "i", "b", "r", "a", "r", "y", "-", "l", "o", "a", "d", "e", "d">>>>,
      <<"library-unloaded", <<"l", "i", "b", "r", "a", "r", "y", "-", "u", "n", "l", "o", "a", "d", "e", "d">>>>,
      <<"cmd-param-changed", <<"c", "m", "d", "-", "p", "a", "r", "a", "m", "-", "c", "h", "a", "n", "g", "e", "d">>>>,
      <<"param-changed", <<"p", "a", "r", "a", "m", "-", "c", "h", "a", "n", "g", "e", "d">>>>,
      <<"memory-changed", <<"m", "e", "m", "o", "r", "y", "-", "c", "h", "a", "n", "g", "e", "d">>>>}

\* The class a class word stands for, "" when the word is not in the table
\* (the parse_*_class functions return Err).
ClassOf(w, words) ==
    IF \E p \in words : p[2] = w
    THEN (CHOOSE p \in words : p[2] = w)[1]
    ELSE ""

\* caps.get(1).and_then(|m| m.as_str().parse::<u64>().ok()) on at most nine
\* digits.
RECURSIVE DecimalValue(_)
DecimalValue(d) ==
    IF d = <<>> THEN 0
    ELSE 10 * DecimalValue(SubSeq(d, 1, Len(d) - 1))
             + (CHOOSE n \in 0..9 : <<"0", "1", "2", "3", "4", "5", "6", "7", "8", "9">>[n + 1] = d[Len(d)])

TokenOf(d) == IF d = <<>> \/ Len(d) > 9 THEN NoTok ELSE DecimalValue(d)

\* A match of a line pattern: the token digits, the class word, whether the
\* results group took part, and its text.
Match(tk, cl, has, rs) ==
    [ok |-> TRUE, tok |-> tk, cls |-> cl, has |-> has, rest |-> rs]
NoMatch == [ok |-> FALSE, tok |-> <<>>, cls |-> <<>>, has |-> FALSE,
            rest |-> <<>>]

\* ^(\d*)\^(\w+)(?:,(.*))?$ and ^(\d*)\*(\w+)(?:,(.*))?$, p the prefix
MatchTokened(s, p) ==
    LET d == PrefixLen(s, Digit)
        r1 == From(s, d + 1)
        r2 == Tail(r1)
        w == PrefixLen(r2, WordChar)
        r3 == From(r2, w + 1)
    IN  IF r1 = <<>> THEN NoMatch
        ELSE IF Head(r1) # p THEN NoMatch
        ELSE IF w = 0 THEN NoMatch
        ELSE IF r3 = <<>>
            THEN Match(SubSeq(s, 1, d), SubSeq(r2, 1, w), FALSE, <<>>)
        ELSE IF Head(r3) = ","
            THEN Match(SubSeq(s, 1, d), SubSeq(r2, 1, w), TRUE, Tail(r3))
        ELSE NoMatch

\* ^=(\S+?)(?:,(.*))?$ : the class is the shortest run of non-space
\* characters that is followed by a comma or by the end of the line.
MatchNotification(s) ==
    LET r == Tail(s)
        ends == { k \in 1..Len(r) :
                    /\ \A j \in 1..k : r[j] \notin Space
                    /\ (k = Len(r) \/ r[k + 1] = ",") }
        k == CHOOSE x \in ends : \A y \in ends : x <= y
    IN  IF s = <<>> THEN NoMatch
        ELSE IF Head(s) # "=" THEN NoMatch
        ELSE IF ends = {} THEN NoMatch
        ELSE IF k = Len(r) THEN Match(<<>>, SubSeq(r, 1, k), FALSE, <<>>)
        ELSE Match(<<>>, SubSeq(r, 1, k), TRUE, From(r, k + 2))

\* ^~"(.*)"$ and the same for @ and &, p the prefix: the text between the
\* first quote and the last character, which is a quote.
MatchStream(s, p) ==
    IF Len(s) >= 3 /\ s[1] = p /\ s[2] = "\"" /\ s[Len(s)] = "\""
    THEN Match(<<>>, <<>>, TRUE, SubSeq(s, 3, Len(s) - 1))
    ELSE NoMatch

\* MiOutputRecord as parse_line returns it: Ok(Some(record)), Ok(None) as kind
\* "None", Err as kind "Err".
TRec(k, t, c, rs, content) ==
    [kind |-> k, token |-> t, class |-> c, results |-> rs,
     content |-> content]

\* The record of a line that matched the result, async or notification
\* pattern, class the outcome of the parse_*_class function ("": Err).
Classed(kind, m, class) ==
    IF class = "" THEN TRec("Err", NoTok, "", <<>>, <<>>)
    ELSE TRec(kind, IF kind = "Notification" THEN NoTok ELSE TokenOf(m.tok),
              class, IF m.has THEN parse_results(m.rest) ELSE <<>>, <<>>)

\* Which of the three patterns with a class matches s, tried in the order of
\* parse_line; kind "" when none does.
ClassedMatchOf(kind, m, words) == [kind |-> kind, m |-> m, words |-> words]
NotificationMatch(m) ==
    IF m.ok THEN ClassedMatchOf("Notification", m, NotificationClassWords)
    ELSE ClassedMatchOf("", NoMatch, {})
AsyncMatch(s, m) ==
    IF m.ok THEN ClassedMatchOf("Async", m, AsyncClassWords)
    ELSE NotificationMatch(MatchNotification(s))
ResultMatch(s, m) ==
    IF m.ok THEN ClassedMatchOf("Result", m, ResultClassWords)
    ELSE AsyncMatch(s, MatchTokened(s, "*"))

\* The console, target and log patterns, tried in that order, and the
\* fallback of parse_line: a line of unknown format is console output.
StreamRecord(kind, m) ==
    TRec(kind, NoTok, "", <<>>, unescape_string(m.rest))
LogLine(s, m) ==
    IF m.ok THEN StreamRecord("Log", m) ELSE TRec("Console", NoTok, "", <<>>, s)
TargetLine(s, m) ==
    IF m.ok THEN StreamRecord("Target", m) ELSE LogLine(s, MatchStream(s, "&"))
ConsoleLine(s, m) ==
    IF m.ok THEN StreamRecord("Console", m)
    ELSE TargetLine(s, MatchStream(s, "@"))

TrimmedLine(s, cm) ==
    IF cm.kind # "" THEN Classed(cm.kind, cm.m, ClassOf(cm.m.cls, cm.words))
    ELSE ConsoleLine(s, MatchStream(s, "~"))

\* MiParser::parse_line on the text of a line
parse_line_text(line) ==
    IF Trim(line) = <<>> \/ Trim(line) = <<"(", "g", "d", "b", ")">>
    THEN TRec("None", NoTok, "", <<>>, <<>>)
    ELSE TrimmedLine(Trim(line),
                     ResultMatch(Trim(line), MatchTokened(Trim(line), "^")))

\* ---- scenario: parse_line on well-formed lines ------------------------------
MaxDigits == 2

\* Everything but the parser's input and output.
clientVars == <<process, stdin, gen, gdb, wire, token_counter, event_rx,
                config, pending, lockVars, rxTok, inbox, state, events, pump,
                callerVars, readLog, nerr, ghostVars>>

\* Decimal tokens of up to MaxDigits digits, the empty one included.
LineTokens == UNION { [1..n -> {"1", "2"}] : n \in 0..MaxDigits }

\* The class words gdb writes after each prefix character: the ones the
\* parse_*_class functions know, and +download.
StatusWords == {<<"d", "o", "w", "n", "l", "o", "a", "d">>}
WordsAfter(p) ==
    IF p = "^" THEN { w[2] : w \in ResultClassWords }
    ELSE IF p = "*" THEN { w[2] : w \in AsyncClassWords }
    ELSE IF p = "+" THEN StatusWords
    ELSE { w[2] : w \in NotificationClassWords }

ResultTexts == {<<>>, <<",", "i", "d", "=", "\"", "1", "\"">>}
StreamTexts == {<<"\"", "h", "i", "\\", "n", "\"">>, <<"\"", "a", " ", "b", "\"">>}

ClassedLines ==
    UNION { { tk \o <<p>> \o w \o rs :
                tk \in LineTokens, w \in WordsAfter(p), rs \in ResultTexts } :
            p \in {"^", "*", "+", "="} }
StreamRecordLines == { <<p>> \o c : p \in {"~", "@", "&"}, c \in StreamTexts }
WellFormedLines == ClassedLines \cup StreamRecordLines

InitParseLine ==
    /\ New(DefaultConfig)
    /\ text \in WellFormedLines
    /\ parsed = Unparsed

\* let record = parser.parse_line(&text)
ParseLine ==
    /\ ~parsed.done
    /\ parsed' = [done |-> TRUE, out |-> parse_line_text(text)]
    /\ UNCHANGED <<text, clientVars>>

NextParseLine == ParseLine
SpecParseLine == InitParseLine /\ [][NextParseLine]_vars

\* C27: parse_line maps every well-formed line to the record kind selected by
\* the first character after its optional decimal token (^ Result, * async,
\* + and = Notification, ~ console, @ target, & log), and keeps the token on
\* Result and async records.
C27_KindByPrefix ==
    parsed.done =>
        LET d == PrefixLen(text, Digit)
            p == text[d + 1]
            kind == IF p = "^" THEN "Result"
                    ELSE IF p = "*" THEN "Async"
                    ELSE IF p \in {"+", "="} THEN "Notification"
                    ELSE IF p = "~" THEN "Console"
                    ELSE IF p = "@" THEN "Target"
                    ELSE "Log"
        IN  /\ parsed.out.kind = kind
            /\ kind \in {"Result", "Async"} =>
                   parsed.out.token = TokenOf(SubSeq(text, 1, d))

\* ---- scenario: parse_results on a quoted constant and a following result ----
MaxPieces == 2

\* What a quoted constant is written from: a plain character, the five
\* escapes, and a backslash before another character.
StringPieces ==
    {<<"x">>, <<" ">>, <<"\\", "n">>, <<"\\", "t">>, <<"\\", "r">>, <<"\\", "\\">>,
     <<"\\", "\"">>, <<"\\", "q">>}

RECURSIVE Flatten(_)
Flatten(ss) == IF ss = <<>> THEN <<>> ELSE Head(ss) \o Flatten(Tail(ss))

ConstantTexts ==
    { Flatten(f) : f \in UNION { [1..n -> StringPieces] : n \in 0..MaxPieces } }

\* a="<constant>",b="1"
ResultsPrefix == <<"a", "=", "\"">>
ResultsSuffix == <<"\"", ",", "b", "=", "\"", "1", "\"">>
ConstantResults == { ResultsPrefix \o c \o ResultsSuffix : c \in ConstantTexts }

InitParseResults ==
    /\ New(DefaultConfig)
    /\ text \in ConstantResults
    /\ parsed = Unparsed

\* let results = parser.parse_results(&text)
ParseResults ==
    /\ ~parsed.done
    /\ parsed' = [done |-> TRUE, out |-> parse_results(text)]
    /\ UNCHANGED <<text, clientVars>>

NextParseResults == ParseResults
SpecParseResults == InitParseResults /\ [][NextParseResults]_vars

\* C28: a quoted constant has its five escapes replaced, ends at its first
\* unescaped double quote, and parsing resumes right after that quote: the
\* result that follows it is parsed with its own name and value.
C28_ConstantThenNextResult ==
    parsed.done =>
        LET c == SubSeq(text, Len(ResultsPrefix) + 1,
                        Len(text) - Len(ResultsSuffix))
        IN  /\ Len(parsed.out) = 2
            /\ parsed.out[1] = MiResult(<<"a">>, MiString(unescape_string(c)))
            /\ parsed.out[2] = MiResult(<<"b">>, MiString(<<"1">>))

\* ---- scenario: parse_line on results that are cut short ---------------------
\* Record heads that take results, results that come first, and values whose
\* closing quote, bracket or brace is missing.
RecordHeads ==
    { tk \o h : tk \in LineTokens, h \in {<<"^", "d", "o", "n", "e", ",">>, <<"*", "s", "t", "o", "p", "p", "e", "d", ",">>} }
        \cup {<<"=", "t", "h", "r", "e", "a", "d", "-", "c", "r", "e", "a", "t", "e", "d", ",">>}
CompleteResults == {<<>>, <<"k", "=", "\"", "v", "\"", ",">>}
UnterminatedValues ==
    {<<"a", "=", "\"", "x">>, <<"a", "=", "[", "1", ",", "2">>, <<"a", "=", "[", "\"", "x", "\"", ",">>, <<"a", "=", "{", "b", "=", "\"", "1", "\"">>, <<"a", "=", "{", "b", "=", "[", "1", "}">>, <<"a", "=", "[", "{", "b", "=", "\"", "1", "\"", "]">>}
UnterminatedLines ==
    { h \o r \o u :
        h \in RecordHeads, r \in CompleteResults, u \in UnterminatedValues }

InitUnterminated ==
    /\ New(DefaultConfig)
    /\ text \in UnterminatedLines
    /\ parsed = Unparsed

NextUnterminated == ParseLine
SpecUnterminated == InitUnterminated /\ [][NextUnterminated]_vars

\* C29: for a line whose results contain an unterminated quoted string, list
\* or tuple, parse_line returns a parse error and no record.
C29_UnterminatedIsError == parsed.done => parsed.out.kind = "Err"

\* ---- parse_breakpoint_list --------------------------------------------------
NumberKey == <<"n", "u", "m", "b", "e", "r">>
TypeKey == <<"t", "y", "p", "e">>
DispKey == <<"d", "i", "s", "p">>
EnabledKey == <<"e", "n", "a", "b", "l", "e", "d">>
AddrKey == <<"a", "d", "d", "r">>
BkptKey == <<"b", "k", "p", "t">>
BodyKey == <<"b", "o", "d", "y">>
BreakpointTableName == <<"B", "r", "e", "a", "k", "p", "o", "i", "n", "t", "T", "a", "b", "l", "e">>

\* Breakpoint, of which the model keeps number, breakpoint_type, disposition,
\* enabled and addr; Breakpoint::default() is the derived Default.
Breakpoint(n, t, d, en, a) ==
    [number |-> n, breakpoint_type |-> t, disposition |-> d, enabled |-> en,
     addr |-> a]
DefaultBreakpoint == Breakpoint(<<>>, <<>>, <<>>, FALSE, NoneStr)

\* Option<Breakpoint>
NoBp == [some |-> FALSE, bp |-> DefaultBreakpoint]
SomeBp(b) == [some |-> TRUE, bp |-> b]

\* Option<String>::unwrap_or_default
UnwrapOrDefault(o) == IF o.some THEN o.v ELSE <<>>

parse_breakpoint_from_tuple(m) ==
    IF ~get_tuple_string(m, NumberKey).some THEN NoBp
    ELSE SomeBp(Breakpoint(
             get_tuple_string(m, NumberKey).v,
             UnwrapOrDefault(get_tuple_string(m, TypeKey)),
             UnwrapOrDefault(get_tuple_string(m, DispKey)),
             IF get_tuple_string(m, EnabledKey).some
                 THEN get_tuple_string(m, EnabledKey).v = <<"y">>
                 ELSE TRUE,
             get_tuple_string(m, AddrKey)))

\* if let Some(bp) = current_bp { if !bp.number.is_empty() { push } }
PushBreakpoint(breakpoints, current_bp) ==
    IF current_bp.some /\ current_bp.bp.number # <<>>
    THEN Append(breakpoints, current_bp.bp)
    ELSE breakpoints

\* A decoder that forgets the breakpoint still open at the end of the body.
PushLastForgotten(breakpoints, current_bp) == breakpoints

\* "Don't forget the last breakpoint"
PushLast(breakpoints, current_bp) == PushBreakpoint(breakpoints, current_bp)

\* The arm Some(key_str) if current_bp.is_some(): a keyed string item that
\* follows a bkpt item sets the field of the open breakpoint.
SetBreakpointField(bp, k, m) ==
    IF ~TupleHas(m, ValueMarker) THEN bp
    ELSE IF TupleGet(m, ValueMarker).t # "String" THEN bp
    ELSE LET s == TupleGet(m, ValueMarker).v IN
         IF k = NumberKey THEN [bp EXCEPT !.number = s]
         ELSE IF k = TypeKey THEN [bp EXCEPT !.breakpoint_type = s]
         ELSE IF k = DispKey THEN [bp EXCEPT !.disposition = s]
         ELSE IF k = EnabledKey THEN [bp EXCEPT !.enabled = (s = <<"y">>)]
         ELSE IF k = AddrKey THEN [bp EXCEPT !.addr = SomeStr(s)]
         ELSE bp

\* for item in body_list { ... } and the push that follows the loop
RECURSIVE BodyLoop(_, _, _)
BodyLoop(items, current_bp, breakpoints) ==
    IF items = <<>> THEN PushLast(breakpoints, current_bp)
    ELSE IF Head(items).t # "Tuple"
        THEN BodyLoop(Tail(items), current_bp, breakpoints)
    ELSE LET tuple == Head(items).v
             key == get_tuple_string(tuple, KeyMarker)
         IN  IF ~key.some THEN BodyLoop(Tail(items), current_bp, breakpoints)
             ELSE IF key.v = BkptKey
                 THEN BodyLoop(Tail(items),
                               IF TupleHas(tuple, ValueMarker)
                                      /\ TupleGet(tuple, ValueMarker).t = "Tuple"
                               THEN parse_breakpoint_from_tuple(
                                        TupleGet(tuple, ValueMarker).v)
                               ELSE SomeBp(DefaultBreakpoint),
                               PushBreakpoint(breakpoints, current_bp))
             ELSE IF current_bp.some
                 THEN BodyLoop(Tail(items),
                               SomeBp(SetBreakpointField(current_bp.bp, key.v,
                                                         tuple)),
                               breakpoints)
             ELSE BodyLoop(Tail(items), current_bp, breakpoints)

\* for result in results { ... }
RECURSIVE TableLoop(_, _)
TableLoop(results, breakpoints) ==
    IF results = <<>> THEN breakpoints
    ELSE LET r == Head(results) IN
         IF r.variable = BreakpointTableName
                /\ r.value.t = "Tuple"
                /\ TupleHas(r.value.v, BodyKey)
                /\ TupleGet(r.value.v, BodyKey).t = "List"
         THEN TableLoop(Tail(results),
                        BodyLoop(TupleGet(r.value.v, BodyKey).v, NoBp,
                                 breakpoints))
         ELSE TableLoop(Tail(results), breakpoints)

parse_breakpoint_list(results) == TableLoop(results, <<>>)

\* ---- scenario: break-list replies -------------------------------------------
MaxBkpts == 2

\* A bkpt element as gdb writes it: the number, and the fields it may leave
\* out; what stands for a field the decoder does not read.
BkptNumbers == {<<"1">>, <<"2">>}
BkptShapes ==
    { [type |-> SomeStr(<<"b", "r", "e", "a", "k", "p", "o", "i", "n", "t">>), disp |-> SomeStr(<<"k", "e", "e", "p">>),
       enabled |-> SomeStr(<<"y">>), addr |-> SomeStr(<<"0", "x", "8", "0">>),
       what |-> NoneStr],
      [type |-> SomeStr(<<"b", "r", "e", "a", "k", "p", "o", "i", "n", "t">>), disp |-> SomeStr(<<"d", "e", "l">>),
       enabled |-> SomeStr(<<"n">>), addr |-> SomeStr(<<"0", "x", "8", "4">>),
       what |-> SomeStr(<<"a", "[", "1", "]", ",", "b", "}">>)],
      [type |-> SomeStr(<<"h", "w", " ", "w", "a", "t", "c", "h", "p", "o", "i", "n", "t">>), disp |-> SomeStr(<<"k", "e", "e", "p">>),
       enabled |-> SomeStr(<<"y">>), addr |-> NoneStr,
       what |-> SomeStr(<<"v">>)],
      [type |-> SomeStr(<<"c", "a", "t", "c", "h", "p", "o", "i", "n", "t">>), disp |-> NoneStr,
       enabled |-> SomeStr(<<"n">>), addr |-> NoneStr, what |-> NoneStr],
      [type |-> NoneStr, disp |-> NoneStr, enabled |-> NoneStr,
       addr |-> SomeStr(<<"0", "x", "8", "0">>), what |-> NoneStr],
      [type |-> NoneStr, disp |-> NoneStr, enabled |-> NoneStr,
       addr |-> NoneStr, what |-> NoneStr] }
BkptElements == BkptNumbers \X BkptShapes

\* ,key="value" for a field that is present
FieldText(k, o) ==
    IF o.some THEN <<",">> \o k \o <<"=", "\"">> \o o.v \o <<"\"">> ELSE <<>>

\* bkpt={number="1",type="breakpoint",...}
BkptText(el) ==
    BkptKey \o <<"=", "{">> \o NumberKey \o <<"=", "\"">> \o el[1]
        \o <<"\"">>
        \o FieldText(TypeKey, el[2].type) \o FieldText(DispKey, el[2].disp)
        \o FieldText(EnabledKey, el[2].enabled)
        \o FieldText(AddrKey, el[2].addr)
        \o FieldText(<<"w", "h", "a", "t">>, el[2].what) \o <<"}">>

RECURSIVE BodyText(_)
BodyText(els) ==
    IF els = <<>> THEN <<>>
    ELSE BkptText(Head(els))
             \o (IF Len(els) > 1 THEN <<",">> ELSE <<>>)
             \o BodyText(Tail(els))

BreakListHead ==
    <<"^", "d", "o", "n", "e", ",", "B", "r", "e", "a", "k", "p", "o", "i", "n", "t", "T", "a", "b", "l", "e", "=", "{", "n", "r", "_", "r", "o", "w", "s", "=", "\"", "1", "\"", ",", "n", "r", "_", "c", "o", "l", "s", "=", "\"", "6", "\"", ",", "h", "d", "r", "=", "[", "]", ",", "b", "o", "d", "y", "=", "[">>
BreakListLine(els) == BreakListHead \o BodyText(els) \o <<"]", "}">>

\* The Breakpoint a bkpt element stands for.
BkptOf(el) ==
    Breakpoint(el[1], UnwrapOrDefault(el[2].type),
               UnwrapOrDefault(el[2].disp),
               IF el[2].enabled.some THEN el[2].enabled.v = <<"y">> ELSE TRUE,
               el[2].addr)

\* The replies of the scenario, each with the elements it was written from.
BreakListBodies == UNION { [1..n -> BkptElements] : n \in 0..MaxBkpts }
BreakListCases == { <<BreakListLine(els), els>> : els \in BreakListBodies }

InitBreakList ==
    /\ New(DefaultConfig)
    /\ text \in { c[1] : c \in BreakListCases }
    /\ parsed = Unparsed

\* parse_breakpoint_list(&results) on the results of the parsed reply
BreakList ==
    /\ ~parsed.done
    /\ parsed' = [done |-> TRUE,
                  out |-> parse_breakpoint_list(parse_line_text(text).results)]
    /\ UNCHANGED <<text, clientVars>>

NextBreakList == BreakList
SpecBreakList == InitBreakList /\ [][NextBreakList]_vars

\* C30: parse_breakpoint_list returns exactly one Breakpoint per bkpt element
\* of the BreakpointTable body, in body order, each with the number, type,
\* enabled flag and address of its own element.
C30_OneBreakpointPerBkpt ==
    parsed.done =>
        \A c \in BreakListCases :
            c[1] = text =>
                /\ Len(parsed.out) = Len(c[2])
                /\ \A i \in 1..Len(c[2]) : parsed.out[i] = BkptOf(c[2][i])

\* Two elements that differ in every field were decoded, in order.
C30_Witness ==
    /\ parsed.done
    /\ Len(parsed.out) = 2
    /\ parsed.out[1].number = <<"2">>
    /\ parsed.out[1].enabled
    /\ parsed.out[1].addr = NoneStr
    /\ parsed.out[2].number = <<"1">>
    /\ ~parsed.out[2].enabled
    /\ parsed.out[2].addr = SomeStr(<<"0", "x", "8", "4">>)
    /\ parsed.out[2].breakpoint_type # parsed.out[1].breakpoint_type

\* ---- scenario: the end of the stdout pump ---------------------------------
\* start and stop in any order, against a debugger that answers within the
\* timeout while it lives, may exit by itself, and whose output may fail to
\* read.
PumpEndOps == {"start", "stop"}

CallPumpEnd == \E o \in PumpEndOps : Call(o)
PumpReadPumpEnd == \E g \in Gens : \E l \in TokenLines : PumpReadLine(g, l)

NextPumpEnd ==
    \/ CallPumpEnd
    \/ StartSpawn
    \/ ScBegin
    \/ ScRecv
    \/ ScCleanup
    \/ HandleStart
    \/ StopBegin
    \/ StopKill
    \/ StopWait
    \/ StopState
    \/ PumpReadPumpEnd
    \/ \E g \in Gens : PumpEof(g)
    \/ \E g \in Gens : PumpReadError(g)
    \/ \E g \in Gens : GdbExit(g)

\* The pump is a thread of its own, blocked in the read of the next line:
\* once the pipe is at end of file the read returns and the thread runs.
SpecPumpEnd ==
    /\ Init
    /\ [][NextPumpEnd]_vars
    /\ \A g \in Gens : WF_vars(PumpEof(g))

\* ---- claims on the end of the pump (SpecPumpEnd) --------------------------
\* C31: once the debugger of a pump thread has exited or been killed, so
\* that its stdout reaches end of file, the pump thread eventually
\* terminates; and a pump thread terminates only from its read of the next
\* line, at end of file or on a read error.
C31_PumpEndsAtEof ==
    /\ \A g \in Gens :
          (gdb[g] \in {"zombie", "reaped"}) ~> (pump[g].pc = "exited")
    /\ [][\A g \in Gens :
             (pump[g].pc # "exited" /\ pump'[g].pc = "exited") =>
                 /\ pump[g].pc = "read"
                 /\ \/ gdb[g] \in {"zombie", "reaped"}
                    \/ pump'[g].rec = ErrRec]_vars

\* stop killed and reaped the child and returned, and the pump of that child
\* has terminated at end of file.
C31_Witness ==
    /\ ret.op = "stop"
    /\ gen \in Gens
    /\ gdb[gen] = "reaped"
    /\ pump[gen].pc = "exited"
    /\ pump[gen].rec = NoRec

\* ---- more claims on execution control (SpecExec) --------------------------
\* C32 as stated: when an exec method (exec_run, exec_continue, the four
\* step methods, exec_finish) matches a reply of class running, the running
\* flag is true once the method has returned or entered wait_for_stop.
C32_ExecSetsRunning ==
    [][(/\ pc = "handle"
        /\ op \in {"exec_run", "exec_continue", "exec_finish"} \cup StepOps
        /\ resp.class = "running"
        /\ pc' # pc) => state'.running]_vars

\* ---- scenario: the typed methods that write the session state -------------
\* start and the seven methods that store a field, against a debugger that
\* answers the handshake in time and any other command with any result class
\* or not at all, selects a thread by itself, and may exit.
StateOps == {"file_exec_and_symbols", "target_disconnect", "set_architecture",
             "stack_select_frame", "thread_select"} \cup ConnectOps
StateWriteOps == {"start"} \cup StateOps
StateWriteLines ==
    IF op = "start" THEN ReplyLines({"done"})
    ELSE ReplyLines({"done", "connected", "error", "running"})
             \cup { Line(NoTok, "=", "thread-selected", "2") }

CallStateWrite == \E o \in StateWriteOps : Call(o)
PumpReadStateWrite ==
    \E g \in Gens : \E l \in StateWriteLines : PumpReadLine(g, l)

NextStateWrite ==
    \/ CallStateWrite
    \/ StartSpawn
    \/ ScBegin
    \/ ScRecv
    \/ (op \in StateOps /\ ScTimeout)
    \/ ScCleanup
    \/ HandleStart
    \/ HandleApi
    \/ PumpReadStateWrite
    \/ \E g \in Gens : GdbExit(g)

SpecStateWrite == Init /\ [][NextStateWrite]_vars

\* ---- claims on the state-writing methods (SpecStateWrite) -----------------
\* C33: a step of one of the seven state-writing typed methods changes the
\* session state only when it matches a reply of its success class (^done,
\* or ^connected for the two connect methods) and returns Ok; the step on
\* which such a method returns an error (^error, another class, the timeout,
\* a failed write) leaves the session state as it was.
C33_StateWrittenOnlyOnSuccess ==
    [][(op \in StateOps /\ pc' # pc) =>
          /\ state' # state =>
                /\ pc = "handle"
                /\ resp.kind = "Result"
                /\ \/ resp.class = "done"
                   \/ (op \in ConnectOps /\ resp.class = "connected")
                /\ ret'.status = "Ok"
          /\ ret'.status = "Err" => state' = state]_vars

\* A state-writing method returned an error on a reply of a class it does not
\* expect, on a connected session whose thread the debugger had selected.
C33_Witness ==
    /\ ret.op \in StateOps
    /\ ret.status = "Err"
    /\ ret.class = "running"
    /\ state.connected
    /\ state.current_thread = "2"

\* ---- more claims on tokens (SpecTokens) -----------------------------------
\* No caller has or will get a record bearing token t: the pending table has
\* no entry for t, and neither the reply channel of the call in progress nor
\* the record it took from the channel bears t.
Undelivered(t) ==
    /\ t \notin pending
    /\ rxTok # t
    /\ \A i \in 1..Len(inbox) : inbox[i].token # t
    /\ resp.token # t

\* C34: the step of send_command_async that passes the stdin check takes a
\* token, makes one write call for the command under that token, leaves the
\* pending table and the reply channel alone and returns; and from then on
\* no record bearing that token reaches a caller, whatever is called later.
C34_AsyncReplyNeverDelivered ==
    /\ [][(pc = "async" /\ stdin /\ pc' # pc) =>
             /\ pc' = "idle"
             /\ ret'.op = "send_command_async"
             /\ pending' = pending
             /\ rxTok' = rxTok
             /\ inbox' = inbox
             /\ Len(wire') = Len(wire) + 1
             /\ wire'[Len(wire')].tok = token_counter
             /\ token_counter' = token_counter + 1]_vars
    /\ \A t \in FirstToken..MaxToken :
          []((/\ ret.op = "send_command_async"
              /\ ret.why # "not running"
              /\ token_counter = t + 1) => []Undelivered(t))

\* send_command_async returned Ok after its write call to a live debugger,
\* which can answer under the token it took, on an engine whose pending
\* table holds the entry of an earlier command and none for that token.
C34_Witness ==
    /\ ret.op = "send_command_async"
    /\ ret.status = "Ok"
    /\ pending # {}
    /\ wire[Len(wire)].tok = token_counter - 1
    /\ wire[Len(wire)].ok
    /\ (token_counter - 1) \in ReplyTokens
    /\ Undelivered(token_counter - 1)

\* ---- the two mutexes, statement by statement -----------------------------
\* send_command, a typed method that stores a field, a step method with its
\* wait_for_stop, and one iteration of read_output_loop, split at every lock
\* and unlock of pending_responses and of the session state.  A mutex is
\* held from the lock() call to the end of the block that owns the guard.
\* A guard on pending_responses that lives to the end of send_command.
InsertGuardScopeFunction == "function"

\* { let mut pending = self.pending_responses.lock().unwrap();
\*   pending.insert(token, tx); }: the guard is dropped at the closing brace.
InsertGuardScope == "block"

\* A guard taken at the top of the loop body and kept to its end.
PendingGuardScopeIteration(rec) == "iteration"

\* if let Result { token, .. } = &record { if let Some(tok) = token {
\*     let pending_map = pending.lock().unwrap(); .. } }
\* The pump locks pending_responses only for a tokened Result record, and the
\* guard is dropped at the continue or at the end of the inner if-let block.
PendingGuardScope(rec) == IF IsReply(rec) THEN "lookup" ELSE "none"

\* handle_async_record, split at the lock and unlock of the session state:
\* the exec-async arms unlock before they send the event, the
\* thread-selected arm sends while it holds the guard.
StateSteps(rec) ==
    IF rec.kind = "Async"
        THEN <<"lock_state", "write", "unlock_state", "publish">>
    ELSE IF EventOf(rec).type = "ThreadSelected"
        THEN <<"lock_state", "select", "publish", "unlock_state">>
    ELSE IF EventOf(rec).type # "None" THEN <<"publish">>
    ELSE <<>>

\* One iteration of the for loop over the lines, for a parsed record.
IterationSteps(rec) ==
    IF PendingGuardScope(rec) = "lookup"
        THEN <<"lock_pending", "lookup", "unlock_pending">> \o StateSteps(rec)
    ELSE IF PendingGuardScope(rec) = "iteration"
        THEN <<"lock_pending", "lookup">> \o StateSteps(rec)
                 \o <<"unlock_pending">>
    ELSE StateSteps(rec)

\* The pump reads and parses a line; it holds no lock while it does.
PkRead(g, l) ==
    /\ pump[g].pc = "read"
    /\ gdb[g] # "none"
    /\ LET rec == parse_line(l) IN
       /\ rec.kind \notin {"None", "Err"}
       /\ IterationSteps(rec) # <<>>
       /\ pump' = [pump EXCEPT ![g] =
                     Pump("step", rec, IterationSteps(rec), FALSE)]
       /\ IF IsReply(rec)
          THEN /\ nlate' = IF rec.token \in timedOut THEN nlate + 1 ELSE nlate
               /\ UNCHANGED readLog
          ELSE /\ Len(readLog) < MaxLines
               /\ readLog' = Append(readLog, rec)
               /\ UNCHANGED nlate
    /\ UNCHANGED <<engineVars, gdb, pending, rxTok, inbox, state, events,
                   callerVars, nerr, lastAsync, stoppedSince, timedOut, nbad>>

\* The next statement of the iteration the pump is in.
PkStep(g) ==
    /\ pump[g].pc = "step"
    /\ LET rec == pump[g].rec
           s == Head(pump[g].todo)
           ch == PendingGet(pending, rec.token)
           hit == s = "lookup" /\ IsReply(rec) /\ ch # NoTok
           rest == IF hit THEN <<"unlock_pending">> ELSE Tail(pump[g].todo)
       IN
       /\ s = "lock_pending" => pending_lock = NoThread
       /\ s = "lock_state" => state_lock = NoThread
       /\ pending_lock' = IF s = "lock_pending" THEN PumpThread(g)
                          ELSE IF s = "unlock_pending" THEN NoThread
                          ELSE pending_lock
       /\ state_lock' = IF s = "lock_state" THEN PumpThread(g)
                        ELSE IF s = "unlock_state" THEN NoThread
                        ELSE state_lock
       /\ inbox' = IF hit /\ SendOk(ch) THEN Append(inbox, rec) ELSE inbox
       /\ state' = IF s = "write"
                       THEN (IF rec.class = "stopped"
                             THEN [state EXCEPT !.running = FALSE,
                                                !.current_thread =
                                   StoppedThread(state.current_thread, rec.arg)]
                             ELSE [state EXCEPT !.running = TRUE])
                   ELSE IF s = "select"
                       THEN [state EXCEPT !.current_thread = rec.arg]
                   ELSE state
       /\ lastAsync' = IF s = "write" THEN rec.class ELSE lastAsync
       /\ stoppedSince' = IF s = "write"
                              THEN (rec.class = "stopped" \/ stoppedSince)
                          ELSE IF hit /\ SendOk(ch) THEN FALSE
                          ELSE stoppedSince
       /\ events' = IF s = "publish" THEN PublishEvent(events, EventOf(rec))
                    ELSE events
       /\ pump' = [pump EXCEPT ![g] =
                     IF rest = <<>> THEN PumpIdle
                     ELSE Pump("step", rec, rest, pump[g].wrote \/ s = "write")]
    /\ UNCHANGED <<process, stdin, gen, token_counter, wire, event_rx, config,
                   parserVars, gdb, pending, rxTok, callerVars, readLog, nerr,
                   timedOut, nlate, nbad>>

\* A return of the caller's method: every guard it still owns is dropped.
LkReturn(st, why) ==
    /\ Return(st, why)
    /\ pending_lock' = IF pending_lock = CallerThread THEN NoThread
                       ELSE pending_lock
    /\ state_lock' = IF state_lock = CallerThread THEN NoThread
                     ELSE state_lock

\* send_command: the stdin check, fetch_add and mpsc::channel().
LkBegin ==
    /\ pc = "sc_begin"
    /\ IF StdinMissing(stdin)
       THEN /\ LkReturn("Err", "not running")
            /\ UNCHANGED <<token_counter, rxTok, inbox>>
       ELSE /\ token_counter <= MaxToken
            /\ token_counter' = FetchAdd(token_counter)
            /\ tok' = token_counter
            /\ rxTok' = token_counter
            /\ inbox' = <<>>
            /\ pc' = "lk_lock_insert"
            /\ UNCHANGED <<lockVars, op, initStep, arg, resp, ret>>
    /\ UNCHANGED <<process, stdin, gen, wire, event_rx, config, parserVars,
                   pending, state, timedOut, pumpSide>>

\* A lock() call of the caller thread: it blocks while another thread holds
\* the mutex.
LkAcquire ==
    /\ pc \in {"lk_lock_insert", "lk_lock_remove", "lk_lock_state",
               "lk_lock_poll"}
    /\ IF pc \in {"lk_lock_insert", "lk_lock_remove"}
       THEN /\ pending_lock = NoThread
            /\ pending_lock' = CallerThread
            /\ UNCHANGED state_lock
       ELSE /\ state_lock = NoThread
            /\ state_lock' = CallerThread
            /\ UNCHANGED pending_lock
    /\ pc' = IF pc = "lk_lock_insert" THEN "lk_insert"
             ELSE IF pc = "lk_lock_remove" THEN "lk_remove"
             ELSE IF pc = "lk_lock_state" THEN "lk_state_write"
             ELSE "lk_poll"
    /\ UNCHANGED <<process, stdin, gen, token_counter, wire, event_rx, config,
                   parserVars, pending, rxTok, inbox, state, op, tok,
                   initStep, arg, resp, ret, timedOut, pumpSide>>

\* pending.insert(token, tx);
LkInsert ==
    /\ pc = "lk_insert"
    /\ pending' = pending \cup {tok}
    /\ pc' = IF InsertGuardScope = "block" THEN "lk_unlock_insert"
             ELSE "lk_write"
    /\ UNCHANGED <<engineVars, rxTok, inbox, state, op, tok, initStep, arg,
                   resp, ret, timedOut, pumpSide>>

\* The end of a block that owns a guard: after the insert, after the
\* remove (send_command returns and its receiver is dropped), after the
\* state write of a typed method (the method returns Ok), and drop(state)
\* in wait_for_stop.
LkRelease ==
    /\ pc \in {"lk_unlock_insert", "lk_unlock_remove", "lk_unlock_state",
               "lk_unlock_poll"}
    /\ IF pc = "lk_unlock_insert"
       THEN /\ pending_lock' = NoThread
            /\ pc' = "lk_write"
            /\ UNCHANGED <<state_lock, rxTok, inbox, op, tok, initStep, arg,
                           resp, ret>>
       ELSE IF pc = "lk_unlock_remove"
       THEN /\ pending_lock' = NoThread
            /\ rxTok' = NoTok
            /\ inbox' = <<>>
            /\ pc' = "lk_handle"
            /\ UNCHANGED <<state_lock, op, tok, initStep, arg, resp, ret>>
       ELSE IF pc = "lk_unlock_state"
       THEN /\ LkReturn("Ok", "")
            /\ UNCHANGED <<rxTok, inbox>>
       ELSE /\ state_lock' = NoThread
            /\ pc' = "lk_elapsed"
            /\ UNCHANGED <<pending_lock, rxTok, inbox, op, tok, initStep,
                           arg, resp, ret>>
    /\ UNCHANGED <<process, stdin, gen, token_counter, wire, event_rx, config,
                   parserVars, pending, state, timedOut, pumpSide>>

\* stdin.write_all(..)?; stdin.flush()?;
LkWrite ==
    /\ pc = "lk_write"
    /\ wire' = Append(wire, Written(gen, tok, CommandOf(op, initStep, arg),
                                    WriteOk(gen)))
    /\ IF WriteOk(gen)
       THEN /\ pc' = "lk_recv"
            /\ UNCHANGED <<lockVars, rxTok, op, tok, initStep, arg, resp, ret>>
       ELSE /\ rxTok' = NoTok
            /\ LkReturn("Err", "write")
    /\ UNCHANGED <<process, stdin, gen, token_counter, event_rx, config,
                   parserVars, pending, inbox, state, timedOut, pumpSide>>

\* rx.recv_timeout(timeout) returns a record.
LkRecv ==
    /\ pc = "lk_recv"
    /\ inbox # <<>>
    /\ resp' = Head(inbox)
    /\ inbox' = Tail(inbox)
    /\ pc' = "lk_lock_remove"
    /\ UNCHANGED <<engineVars, pending, rxTok, state, op, tok, initStep, arg,
                   ret, timedOut, pumpSide>>

\* rx.recv_timeout(timeout) gives up and the ? returns.
LkTimeout ==
    /\ pc = "lk_recv"
    /\ inbox = <<>>
    /\ rxTok' = NoTok
    /\ timedOut' = timedOut \cup {tok}
    /\ LkReturn("Err", "timeout")
    /\ UNCHANGED <<process, stdin, gen, token_counter, wire, event_rx, config,
                   parserVars, pending, inbox, state, pumpSide>>

\* pending.remove(&token);
LkRemove ==
    /\ pc = "lk_remove"
    /\ pending' = pending \ {tok}
    /\ pc' = "lk_unlock_remove"
    /\ UNCHANGED <<engineVars, rxTok, inbox, state, op, tok, initStep, arg,
                   resp, ret, timedOut, pumpSide>>

\* The match of the method on the record send_command returned.
LkHandle ==
    /\ pc = "lk_handle"
    /\ IF op = "send_command" THEN LkReturn("Ok", "")
       ELSE IF op \in StepOps
       THEN (IF ExecReplyAction(op, resp.class) = "wait"
             THEN /\ pc' = "lk_lock_poll"
                  /\ UNCHANGED <<lockVars, op, tok, initStep, arg, resp, ret>>
             ELSE IF ExecReplyAction(op, resp.class) = "ok"
                  THEN LkReturn("Ok", "")
             ELSE LkReturn("Err", "reply"))
       ELSE (IF InSuccessArm(ApiReplyAction(op, resp))
             THEN /\ pc' = "lk_lock_state"
                  /\ UNCHANGED <<lockVars, op, tok, initStep, arg, resp, ret>>
             ELSE LkReturn("Err", "reply"))
    /\ UNCHANGED <<process, stdin, gen, token_counter, wire, event_rx, config,
                   parserVars, pending, rxTok, inbox, state, timedOut,
                   pumpSide>>

\* let mut state = self.state.lock().unwrap(); state.<field> = ..;
LkStateWrite ==
    /\ pc = "lk_state_write"
    /\ state' = ApiStateWrite(op, arg, state)
    /\ pc' = "lk_unlock_state"
    /\ UNCHANGED <<engineVars, pending, rxTok, inbox, op, tok, initStep, arg,
                   resp, ret, timedOut, pumpSide>>

\* wait_for_stop: if !state.running { return Ok(()); } drop(state);
LkPoll ==
    /\ pc = "lk_poll"
    /\ IF ~state.running
       THEN LkReturn("Ok", "")
       ELSE /\ pc' = "lk_unlock_poll"
            /\ UNCHANGED <<lockVars, op, tok, initStep, arg, resp, ret>>
    /\ UNCHANGED <<process, stdin, gen, token_counter, wire, event_rx, config,
                   parserVars, pending, rxTok, inbox, state, timedOut,
                   pumpSide>>

\* wait_for_stop: the elapsed-time test, then the sleep and the next turn.
LkElapsed ==
    /\ pc = "lk_elapsed"
    /\ \/ LkReturn(StopTimeoutStatus, "stop timeout")
       \/ /\ pc' = "lk_lock_poll"
          /\ UNCHANGED <<lockVars, op, tok, initStep, arg, resp, ret>>
    /\ UNCHANGED <<process, stdin, gen, token_counter, wire, event_rx, config,
                   parserVars, pending, rxTok, inbox, state, timedOut,
                   pumpSide>>

\* ---- scenario: the two threads at the two mutexes -------------------------
\* The engine as a successful start leaves it, then target_connect_remote
\* and a step method against a debugger that answers with ^done or ^running
\* or not at all, reports the inferior running and stopped, and selects a
\* thread.  AfterStart(ok) is the engine after a start whose handshake was
\* answered (ok) or whose first handshake command timed out.
AfterStart(ok) ==
    /\ config = DefaultConfig
    /\ NoText
    /\ process = TRUE
    /\ stdin = TRUE
    /\ gen = 1
    /\ gdb = [g \in Gens |-> IF g = 1 THEN "alive" ELSE "none"]
    /\ wire = IF ok
              THEN [i \in 1..HandshakeLen |->
                       Written(1, FirstToken + i - 1, HandshakeCmd(i), TRUE)]
              ELSE <<Written(1, FirstToken, HandshakeCmd(1), TRUE)>>
    /\ token_counter = FirstToken + (IF ok THEN HandshakeLen ELSE 1)
    /\ event_rx = TRUE
    /\ pending = IF ok THEN {} ELSE {FirstToken}
    /\ pending_lock = NoThread
    /\ state_lock = NoThread
    /\ rxTok = NoTok
    /\ inbox = <<>>
    /\ state = [connected |-> ok, running |-> FALSE, current_thread |-> "",
                executable |-> "", architecture |-> "",
                target_remote |-> FALSE, current_frame |-> ""]
    /\ events = <<>>
    /\ pump = [g \in Gens |-> IF g = 1 THEN PumpIdle
                              ELSE Pump("none", NoRec, <<>>, FALSE)]
    /\ op = "none"
    /\ pc = "idle"
    /\ tok = NoTok
    /\ initStep = 0
    /\ arg = ""
    /\ resp = NoRec
    /\ ret = IF ok THEN Ret("start", "Ok", "", "done")
             ELSE Ret("start", "Err", "timeout", "")
    /\ readLog = <<>>
    /\ nerr = 0
    /\ lastAsync = "none"
    /\ stoppedSince = FALSE
    /\ timedOut = IF ok THEN {} ELSE {FirstToken}
    /\ nlate = 0
    /\ nbad = 0

InitLocks == AfterStart(TRUE)

LockOps == {"target_connect_remote", "exec_next"}
LockLines ==
    ReplyLines({"done", "running"})
        \cup { Line(NoTok, "*", "stopped", "1"),
               Line(NoTok, "*", "running", ""),
               Line(NoTok, "=", "thread-selected", "2") }

CallLocks == \E o \in LockOps : Call(o)
PkReadLocks == \E g \in Gens : \E l \in LockLines : PkRead(g, l)

NextLocks ==
    \/ CallLocks
    \/ LkBegin
    \/ LkAcquire
    \/ LkInsert
    \/ LkRelease
    \/ LkWrite
    \/ LkRecv
    \/ LkTimeout
    \/ LkRemove
    \/ LkHandle
    \/ LkStateWrite
    \/ LkPoll
    \/ LkElapsed
    \/ PkReadLocks
    \/ \E g \in Gens : PkStep(g)

SpecLocks == InitLocks /\ [][NextLocks]_vars

\* ---- claims on the two mutexes (SpecLocks) --------------------------------
\* C35: a thread that holds the mutex of the pending table is inside one
\* insert, one lookup-and-deliver or one remove: the caller holds it at no
\* point of its write to the debugger's stdin or of its wait on the reply
\* channel, and a pump holds it at no point of its read of a line.
C35_PendingMutexHeldBriefly ==
    /\ pending_lock = CallerThread =>
          pc \in {"lk_insert", "lk_unlock_insert", "lk_remove",
                  "lk_unlock_remove"}
    /\ \A g \in Gens :
          pending_lock = PumpThread(g) =>
              /\ pump[g].pc = "step"
              /\ Head(pump[g].todo) \in {"lookup", "unlock_pending"}
              /\ IsReply(pump[g].rec)

\* The caller waits on its reply channel while the pump, which holds the
\* mutex, looks up the token of that call.
C35_Witness ==
    /\ pc = "lk_recv"
    /\ pending_lock = PumpThread(gen)
    /\ Head(pump[gen].todo) = "lookup"
    /\ pump[gen].rec.token = tok

\* C40: no thread holds the pending-table mutex and the session-state mutex
\* at the same time, and the caller and a pump never each wait for a mutex
\* the other one holds.
C40_NeverBothMutexes ==
    /\ ~(pending_lock = CallerThread /\ state_lock = CallerThread)
    /\ \A g \in Gens :
          /\ ~(pending_lock = PumpThread(g) /\ state_lock = PumpThread(g))
          /\ ~(/\ pump[g].pc = "step"
               /\ \/ /\ Head(pump[g].todo) = "lock_pending"
                     /\ pending_lock = CallerThread
                     /\ pc \in {"lk_lock_state", "lk_lock_poll"}
                     /\ state_lock = PumpThread(g)
                  \/ /\ Head(pump[g].todo) = "lock_state"
                     /\ state_lock = CallerThread
                     /\ pc \in {"lk_lock_insert", "lk_lock_remove"}
                     /\ pending_lock = PumpThread(g))

\* The two mutexes are held at once, by the two threads: the caller is
\* inside its insert into the pending table while the pump is inside the
\* state write of a *stopped record.
C40_Witness ==
    /\ pending_lock = CallerThread
    /\ pc = "lk_insert"
    /\ state_lock = PumpThread(gen)
    /\ pump[gen].rec.class = "stopped"
    /\ Head(pump[gen].todo) = "write"

\* ---- more claims on shutdown (SpecShutdown) -------------------------------
\* C36 as stated: in every reachable state, connected=true implies that the
\* engine holds a debugger process.
C36_ConnectedImpliesProcess == state.connected => process

\* C36, between calls: whenever no API call is in progress, connected=true
\* implies that the engine holds a process; connected becomes true only on
\* the step on which start returns Ok, on an engine that holds a process,
\* and becomes false only on the last step of a stop (or drop), whose first
\* step emptied the process slot; only stop and drop empty the slot.
C36_ConnectedImpliesProcessBetweenCalls ==
    /\ [](pc = "idle" => (state.connected => process))
    /\ [][/\ (~state.connected /\ state'.connected) =>
                /\ op = "start"
                /\ ret'.op = "start"
                /\ ret'.status = "Ok"
                /\ process'
          /\ (state.connected /\ ~state'.connected) =>
                /\ op \in {"stop", "drop"}
                /\ pc = "stop_state"
                /\ ~process
          /\ (process /\ ~process') =>
                /\ op \in {"stop", "drop"}
                /\ pc = "stop"]_vars

\* A second start succeeded on the engine: the session was connected,
\* disconnected by a stop, and is connected again, with a process.
C36_Witness ==
    /\ pc = "idle"
    /\ ret.op = "start"
    /\ ret.status = "Ok"
    /\ gen = 2
    /\ gdb[1] = "reaped"
    /\ state.connected
    /\ process

\* ---- scenario: a start that fails in the handshake ------------------------
\* start, stop and raw commands in any order, against a debugger that
\* answers or stays silent and may exit by itself at any time.
FailedStartOps == {"start", "stop", "send_command"}

CallFailedStart == \E o \in FailedStartOps : Call(o)
PumpReadFailedStart ==
    \E g \in Gens : \E l \in TokenLines : PumpReadLine(g, l)

NextFailedStart ==
    \/ CallFailedStart
    \/ StartSpawn
    \/ ScBegin
    \/ ScRecv
    \/ ScTimeout
    \/ ScCleanup
    \/ HandleStart
    \/ HandleRaw
    \/ StopBegin
    \/ StopKill
    \/ StopWait
    \/ StopState
    \/ PumpReadFailedStart
    \/ \E g \in Gens : GdbExit(g)

SpecFailedStart == Init /\ [][NextFailedStart]_vars

\* ---- claims on a failed start (SpecFailedStart) ---------------------------
\* C37: a start that returns an error from its handshake (a timeout or a
\* failed write) leaves the engine with its process and stdin and the
\* session disconnected.  While the engine holds a process and the session
\* is disconnected, which is the case from such a return up to the next
\* stop, a start returns the already-running error and changes nothing, and
\* a send_command passes the stdin check, takes a token and makes its write
\* call; only stop empties the process slot, and connected becomes true only
\* in a start made after every earlier process was stopped and reaped.
C37_FailedStartKeepsProcess ==
    [][/\ (/\ op = "start"
           /\ ret'.op = "start"
           /\ ret'.why \in {"timeout", "write"}) =>
              /\ ret'.status = "Err"
              /\ process'
              /\ stdin'
              /\ ~state'.connected
       /\ (process /\ ~state.connected /\ pc = "start" /\ pc' # pc) =>
              /\ ret'.status = "Err"
              /\ ret'.why = "already running"
              /\ UNCHANGED <<process, stdin, gen, gdb, wire, token_counter,
                             pending, state>>
       /\ (/\ process
           /\ ~state.connected
           /\ op = "send_command"
           /\ pc = "sc_begin"
           /\ pc' # pc) =>
              /\ stdin
              /\ token_counter' = token_counter + 1
              /\ Len(wire') = Len(wire) + 1
              /\ wire'[Len(wire')].tok = token_counter
              /\ wire'[Len(wire')].gen = gen
       /\ (process /\ ~process') => op = "stop"
       /\ (~state.connected /\ state'.connected) =>
              \A g \in 1..(gen - 1) : gdb[g] = "reaped"]_vars

\* After a start that failed by timeout, a send_command wrote its command
\* to the debugger that start had spawned, and a further start was refused.
C37_Witness ==
    /\ ret.op = "start"
    /\ ret.why = "already running"
    /\ ~state.connected
    /\ process
    /\ stdin
    /\ gen = 1
    /\ FirstToken \in timedOut
    /\ \E i \in 1..Len(wire) : wire[i].cmd = "command" /\ wire[i].ok

\* ---- scenario: the session state across stop and start --------------------
\* start, stop, file_exec_and_symbols and target_connect_remote in any
\* order, against a debugger that answers with ^done or stays silent and
\* selects a thread by itself.
RestartOps == {"start", "stop", "file_exec_and_symbols",
               "target_connect_remote"}
RestartLines ==
    ReplyLines({"done"}) \cup { Line(NoTok, "=", "thread-selected", "2") }

CallRestart == \E o \in RestartOps : Call(o)
PumpReadRestart == \E g \in Gens : \E l \in RestartLines : PumpReadLine(g, l)

NextRestart ==
    \/ CallRestart
    \/ StartSpawn
    \/ ScBegin
    \/ ScRecv
    \/ ScTimeout
    \/ ScCleanup
    \/ HandleStart
    \/ HandleApi
    \/ StopBegin
    \/ StopKill
    \/ StopWait
    \/ StopState
    \/ PumpReadRestart

SpecRestart == Init /\ [][NextRestart]_vars

\* ---- claims on the state across stop and start (SpecRestart) --------------
\* C38: no step of a stop and no step of a start changes executable,
\* architecture, target_remote, current_thread or current_frame; a stop
\* writes connected=false and running=false and a start writes nothing but
\* connected=true.
C38_StopKeepsOtherFields ==
    [][(op \in {"stop", "start"} /\ pc' # pc) =>
          /\ state'.executable = state.executable
          /\ state'.architecture = state.architecture
          /\ state'.target_remote = state.target_remote
          /\ state'.current_thread = state.current_thread
          /\ state'.current_frame = state.current_frame
          /\ op = "start" => state'.running = state.running]_vars

\* A start made after a stop has returned, on a session that still names
\* the executable, the remote target and the thread stored before the stop.
C38_Witness ==
    /\ ret.op = "start"
    /\ gen = 2
    /\ gdb[1] = "reaped"
    /\ state.executable # ""
    /\ state.target_remote
    /\ state.current_thread = "2"

\* ---- scenario: who names the current thread ------------------------------
\* A started session on which thread_select is called while the debugger
\* answers with ^done, reports stops with and without a thread-id and selects
\* a thread by itself.
ThreadOps == {"thread_select"}
ThreadLines ==
    ReplyLines({"done"})
        \cup { Line(NoTok, "*", "stopped", a) : a \in {"", "1"} }
        \cup { Line(NoTok, "=", "thread-selected", "2") }

CallThread == \E o \in ThreadOps : Call(o)
PumpReadThread == \E g \in Gens : \E l \in ThreadLines : PumpReadLine(g, l)

NextThread ==
    \/ CallThread
    \/ ScBegin
    \/ ScRecv
    \/ ScTimeout
    \/ ScCleanup
    \/ HandleApi
    \/ PumpReadThread
    \/ \E g \in Gens : PumpHandle(g)

SpecThread == InitLocks /\ [][NextThread]_vars

\* ---- claims on the current thread (SpecThread) ---------------------------
\* C39: the state write the pump makes for a *stopped record leaves
\* current_thread equal to the thread-id of the record, empty when the record
\* has none, whatever thread_select or a thread-selected notification had
\* stored before.
C39_StoppedSetsThread ==
    [][\A g \in Gens :
          (/\ ~pump[g].wrote
           /\ pump'[g].wrote
           /\ pump'[g].rec.class = "stopped")
          => /\ state'.current_thread = pump'[g].rec.arg
             /\ ~state'.running]_vars

\* thread_select has returned Ok, having stored thread 1 or 2, and a later
\* *stopped without a thread-id has emptied current_thread.
C39_Witness ==
    /\ ret.op = "thread_select"
    /\ ret.status = "Ok"
    /\ lastAsync = "stopped"
    /\ state.current_thread = ""
    /\ \A g \in Gens : pump[g].pc # "handle"

====
